---- MODULE Spec2Model ----
(***************************************************************************)
(* A model of the TaxBit export pipeline of the Cintara bridge             *)
(* (src/bridge/taxbit_service.py): discovery of an address's transactions  *)
(* (LevelDB scan, RPC fallback), the merge (deduplicate, sort, date        *)
(* filter), classification, amount conversion and CSV generation.          *)
(*                                                                         *)
(* Encodings used throughout:                                              *)
(*   - a transaction hash is a natural number; 0 is the empty string ''    *)
(*     (falsy in Python), every other value a distinct non-empty string;   *)
(*   - a timestamp is a natural number; 0 is the empty string '', the      *)
(*     values in Instants are ISO-8601 instants written in one format (so   *)
(*     that the string order the sort uses is their chronological order),  *)
(*     and Unparsable is a non-empty string that datetime.fromisoformat    *)
(*     rejects (it sorts above every ISO instant, as '[' and letters sort  *)
(*     above digits); Incomparable is an ISO-8601 instant of a later year  *)
(*     written without a UTC offset where the request's bounds have one,   *)
(*     or with one where they have none;                                   *)
(*   - NoDate is Python's None for start_date / end_date.                  *)
(***************************************************************************)
EXTENDS Integers, Sequences, FiniteSets, TLC

VARIABLES
    pc,           \* position of the export request: "idle", "scan", "rpc", "convert", "done"
    req,          \* index of the current export request (1 or 2)
    now,          \* the wall clock read by datetime.now()
    address,      \* the address being exported
    start_date,   \* the request's start_date (NoDate for None)
    end_date,     \* the request's end_date (NoDate for None)
    store,        \* the tx_index LevelDB and the ways to it: [plyvel_available,
                  \* paths, size, matching]; record i has key i and matches the
                  \* address when i \in matching
    rpc,          \* the node's answers to the RPC strategies, fixed once first asked
    scanned,      \* records of the store the running scan has examined
    transactions, \* the list the running discovery has built / returned
    csv,          \* csv[r]: the CSV text request r returned (a sequence of lines)
    arg,          \* the argument of the pure function under check
    ret,          \* its result
    phase         \* "input" before the call, "returned" after it

vars == <<pc, req, now, address, start_date, end_date, store, rpc, scanned,
          transactions, csv, arg, ret, phase>>

pipelineVars == <<pc, req, now, address, start_date, end_date, store, rpc,
                  scanned, transactions, csv>>

callVars == <<arg, ret, phase>>

-----------------------------------------------------------------------------
(* Bounds of the model *)

\* longest transaction list handed to the merge
MaxMerge == 3

-----------------------------------------------------------------------------
(* Values *)

\* Optional[datetime] = None
NoDate == -1

\* a non-empty timestamp string that is no ISO-8601 instant
Unparsable == 99

\* an ISO-8601 instant that cannot be compared with the request's bounds: one
\* has a UTC offset and the other has none, and "<" raises TypeError
Incomparable == 97

\* the ISO-8601 instants of the model that can be compared with the bounds, in
\* chronological order
Instants == {1, 2}

TimestampValues == {0} \cup Instants \cup {Incomparable, Unparsable}

\* the hash strings of the model: 0 is the empty string
HashValues == {0, 1, 2}

DateValues == {NoDate} \cup Instants

\* the node's answers before the first request has asked for them
NotAsked == [asked |-> FALSE, status |-> 0, txs |-> <<>>]

\* Sequences over S of length at most n
SeqUpTo(S, n) == UNION {[1..k -> S] : k \in 0..n}

Range(s) == {s[i] : i \in DOMAIN s}

-----------------------------------------------------------------------------
(* _deduplicate_and_filter_transactions *)

\* a variant of the loop that lets a later record replace the one kept for its hash
RECURSIVE RemoveDuplicatesKeepLast(_, _, _)
RemoveDuplicatesKeepLast(txs, seen_hashes, unique_transactions) ==
    IF txs = <<>> THEN unique_transactions
    ELSE LET tx == Head(txs)
             others == SelectSeq(unique_transactions, LAMBDA u : u.hash # tx.hash)
         IN IF tx.hash # 0
            THEN RemoveDuplicatesKeepLast(Tail(txs), seen_hashes \cup {tx.hash},
                                          Append(others, tx))
            ELSE RemoveDuplicatesKeepLast(Tail(txs), seen_hashes, unique_transactions)

\* a variant of the loop that does not look at seen_hashes
RECURSIVE RemoveDuplicatesKeepAll(_, _, _)
RemoveDuplicatesKeepAll(txs, seen_hashes, unique_transactions) ==
    IF txs = <<>> THEN unique_transactions
    ELSE LET tx == Head(txs)
             tx_hash == tx.hash
         IN IF tx_hash # 0
            THEN RemoveDuplicatesKeepAll(Tail(txs), seen_hashes \cup {tx_hash},
                                         Append(unique_transactions, tx))
            ELSE RemoveDuplicatesKeepAll(Tail(txs), seen_hashes, unique_transactions)

\* a variant of the loop that does not test the hash for truth
RECURSIVE RemoveDuplicatesKeepUnhashed(_, _, _)
RemoveDuplicatesKeepUnhashed(txs, seen_hashes, unique_transactions) ==
    IF txs = <<>> THEN unique_transactions
    ELSE LET tx == Head(txs)
             tx_hash == tx.hash
         IN IF tx_hash \notin seen_hashes
            THEN RemoveDuplicatesKeepUnhashed(Tail(txs), seen_hashes \cup {tx_hash},
                                              Append(unique_transactions, tx))
            ELSE RemoveDuplicatesKeepUnhashed(Tail(txs), seen_hashes, unique_transactions)

\* the loop "for tx in transactions": keep tx when its hash is truthy and unseen
RECURSIVE RemoveDuplicates(_, _, _)
RemoveDuplicates(txs, seen_hashes, unique_transactions) ==
    IF txs = <<>> THEN unique_transactions
    ELSE LET tx == Head(txs)
             tx_hash == tx.hash
         IN IF tx_hash # 0 /\ tx_hash \notin seen_hashes
            THEN RemoveDuplicates(Tail(txs), seen_hashes \cup {tx_hash},
                                  Append(unique_transactions, tx))
            ELSE RemoveDuplicates(Tail(txs), seen_hashes, unique_transactions)

\* the sort key: x.get('timestamp', '')
SortKey(tx) == tx.timestamp

\* a variant of the insertion that puts the element before those of equal key
RECURSIVE InsertSortedUnstable(_, _)
InsertSortedUnstable(sorted, tx) ==
    IF sorted = <<>> THEN <<tx>>
    ELSE IF SortKey(Head(sorted)) > SortKey(tx)
         THEN <<Head(sorted)>> \o InsertSortedUnstable(Tail(sorted), tx)
         ELSE <<tx>> \o sorted

\* one element put into a list already sorted by key, newest first, after every
\* element whose key is not smaller: list.sort(reverse=True) is stable
RECURSIVE InsertSorted(_, _)
InsertSorted(sorted, tx) ==
    IF sorted = <<>> THEN <<tx>>
    ELSE IF SortKey(Head(sorted)) >= SortKey(tx)
         THEN <<Head(sorted)>> \o InsertSorted(Tail(sorted), tx)
         ELSE <<tx>> \o sorted

\* unique_transactions.sort(key=lambda x: x.get('timestamp', ''), reverse=True)
RECURSIVE SortNewestFirst(_, _)
SortNewestFirst(txs, sorted) ==
    IF txs = <<>> THEN sorted
    ELSE SortNewestFirst(Tail(txs), InsertSorted(sorted, Head(txs)))

\* the body of the filter loop: TRUE when tx is appended to filtered_transactions
PassesDateFilter(tx, sd, ed) ==
    LET tx_timestamp == tx.timestamp
    IN /\ tx_timestamp # 0                       \* if not tx_timestamp: continue
       /\ tx_timestamp # Unparsable              \* fromisoformat raises: continue
       /\ tx_timestamp # Incomparable            \* the comparison raises: continue
       /\ ~(sd # NoDate /\ tx_timestamp < sd)    \* if start_date and tx_time < start_date
       /\ ~(ed # NoDate /\ tx_timestamp > ed)    \* if end_date and tx_time > end_date

RECURSIVE FilterByDate(_, _, _)
FilterByDate(txs, sd, ed) ==
    IF txs = <<>> THEN <<>>
    ELSE IF PassesDateFilter(Head(txs), sd, ed)
         THEN <<Head(txs)>> \o FilterByDate(Tail(txs), sd, ed)
         ELSE FilterByDate(Tail(txs), sd, ed)

DeduplicateAndFilterTransactions(txs, sd, ed) ==
    LET unique_transactions == SortNewestFirst(RemoveDuplicates(txs, {}, <<>>), <<>>)
    IN IF sd # NoDate \/ ed # NoDate
       THEN FilterByDate(unique_transactions, sd, ed)
       ELSE unique_transactions

-----------------------------------------------------------------------------
(* The merge applied to every bounded input: specification SpecMerge *)

\* a transaction as the merge reads it; id is the position of the record in the
\* strategies' concatenated output and stands for the rest of its content (memo, ...)
MergeTx(h, t, i) == [hash |-> h, timestamp |-> t, id |-> i]

\* the list of k transactions with the hashes and timestamps f gives them
MergeInput(k, f) == [i \in 1..k |-> MergeTx(f[i][1], f[i][2], i)]

IdlePipeline ==
    /\ pc = "unused" /\ req = 0 /\ now = 0 /\ address = "" /\ start_date = NoDate
    /\ end_date = NoDate /\ store = [plyvel_available |-> FALSE, paths |-> <<>>, size |-> 0, matching |-> {}]
    /\ rpc = NotAsked /\ scanned = 0 /\ transactions = <<>> /\ csv = <<>>

InitMerge ==
    /\ IdlePipeline
    /\ \E k \in 0..MaxMerge, sd \in DateValues, ed \in DateValues :
          \E f \in [1..k -> HashValues \X TimestampValues] :
              arg = [transactions |-> MergeInput(k, f), start_date |-> sd, end_date |-> ed]
    /\ ret = <<>>
    /\ phase = "input"

CallMerge ==
    /\ phase = "input"
    /\ ret' = DeduplicateAndFilterTransactions(arg.transactions, arg.start_date,
                                               arg.end_date)
    /\ phase' = "returned"
    /\ UNCHANGED <<arg, pipelineVars>>

NextMerge == CallMerge

SpecMerge == InitMerge /\ [][NextMerge]_vars

\* the records of a list that carry hash h, in the list's order
WithHash(txs, h) == SelectSeq(txs, LAMBDA tx : tx.hash = h)

\* the non-empty hashes that several records of a list carry
RepeatedHashes(txs) ==
    {h \in HashValues \ {0} : \E i, j \in DOMAIN txs : i < j /\ txs[i].hash = h /\ txs[j].hash = h}

\* the first record of a list that carries hash h
FirstWithHash(txs, h) == Head(WithHash(txs, h))

\* t is an ISO instant inside the inclusive window [sd, ed]; a missing bound is open
InWindow(t, sd, ed) ==
    /\ t \in Instants
    /\ (sd = NoDate \/ sd <= t)
    /\ (ed = NoDate \/ t <= ed)

(* C2, as stated: when several input transactions share a (non-empty) hash,  *)
(* the merged output holds exactly the first of them in strategy order,      *)
(* unmodified, and none of the later ones.                                   *)
C2_FirstOccurrenceAlwaysKept ==
    phase = "returned" =>
        \A h \in RepeatedHashes(arg.transactions) :
            WithHash(ret, h) = <<FirstWithHash(arg.transactions, h)>>

(* C2, amended: of several input transactions sharing a (non-empty) hash,    *)
(* the merged output never holds a later one; it holds the first one,        *)
(* unmodified, exactly when either no date bound is supplied or the first    *)
(* one's timestamp is an instant that can be compared with the supplied      *)
(* bounds and lies inside them.                                              *)
C2_FirstOccurrenceKeptUnlessFiltered ==
    phase = "returned" =>
        \A h \in RepeatedHashes(arg.transactions) :
            LET first == FirstWithHash(arg.transactions, h)
                kept == \/ (arg.start_date = NoDate /\ arg.end_date = NoDate)
                        \/ InWindow(first.timestamp, arg.start_date, arg.end_date)
            IN WithHash(ret, h) = IF kept THEN <<first>> ELSE <<>>

\* two strategies return the same hash with different content, and the first is kept
C2_Witness ==
    /\ phase = "returned"
    /\ \E h \in RepeatedHashes(arg.transactions) :
          /\ WithHash(ret, h) = <<FirstWithHash(arg.transactions, h)>>
          /\ \E i \in DOMAIN arg.transactions :
                /\ arg.transactions[i].hash = h
                /\ arg.transactions[i] # FirstWithHash(arg.transactions, h)

\* the first records of a list that carry each non-empty hash
FirstRecords(txs) ==
    {txs[i] : i \in {j \in DOMAIN txs :
                        /\ txs[j].hash # 0
                        /\ \A k \in 1..(j - 1) : txs[k].hash # txs[j].hash}}

(* C28: with no date bounds the merge returns exactly the first occurrence   *)
(* of each distinct non-empty hash of its input: every record of the result  *)
(* is such a first occurrence, unaltered, each of them is in the result      *)
(* once, and what is left out is a later duplicate or carries no hash.       *)
C28_ExactlyFirstOccurrences ==
    (phase = "returned" /\ arg.start_date = NoDate /\ arg.end_date = NoDate) =>
        /\ Range(ret) = FirstRecords(arg.transactions)
        /\ Len(ret) = Cardinality(FirstRecords(arg.transactions))
        /\ \A i \in DOMAIN arg.transactions :
              arg.transactions[i] \notin Range(ret) =>
                  \/ arg.transactions[i].hash = 0
                  \/ \E k \in 1..(i - 1) :
                        arg.transactions[k].hash = arg.transactions[i].hash

\* a merge without date bounds of a list with a record without hash and a
\* later duplicate: both are left out, the other records are returned
C28_Witness ==
    /\ phase = "returned"
    /\ arg.start_date = NoDate /\ arg.end_date = NoDate
    /\ \E i \in DOMAIN arg.transactions : arg.transactions[i].hash = 0
    /\ RepeatedHashes(arg.transactions) # {}
    /\ Len(ret) = 1
    /\ Len(arg.transactions) = 3

(* C4, as stated: the merged result is ordered by timestamp descending, and  *)
(* transactions with equal timestamps are ordered by hash ascending.         *)
C4_TiesOrderedByHash ==
    phase = "returned" =>
        \A i \in 1..(Len(ret) - 1) :
            \/ ret[i].timestamp > ret[i + 1].timestamp
            \/ /\ ret[i].timestamp = ret[i + 1].timestamp
               /\ ret[i].hash < ret[i + 1].hash

(* C4, amended: the merged result is ordered by timestamp descending, and    *)
(* transactions with equal timestamps keep the order in which the strategies *)
(* returned them (the sort is stable and has no second key).                 *)
C4_TiesKeepInputOrder ==
    phase = "returned" =>
        \A i \in 1..(Len(ret) - 1) :
            \/ ret[i].timestamp > ret[i + 1].timestamp
            \/ /\ ret[i].timestamp = ret[i + 1].timestamp
               /\ ret[i].id < ret[i + 1].id

\* a result with a tie that is kept in input order, against the order of the hashes
C4_Witness ==
    /\ phase = "returned"
    /\ Len(ret) = 2
    /\ ret[1].timestamp = ret[2].timestamp
    /\ ret[1].hash > ret[2].hash
    /\ ret[1].id < ret[2].id

-----------------------------------------------------------------------------
(* classify_transaction                                                     *)
(*                                                                          *)
(* A message type string is [module, name]: the string module \o name, with *)
(* module "" or a protobuf package prefix such as "/cosmos.bank.v1beta1.".  *)
(* Among the type names of the model one is a substring of another exactly  *)
(* when the names agree and the first has no module or the same module.     *)
(* An event is [type, attributes]; attributes is [shape, recipient], shape  *)
(* "dict" for a mapping attribute -> value (what the LevelDB parser and the *)
(* block scanner build) and "list" for the node's RPC form, a list of       *)
(* {key, value} entries, which has no .get method.                          *)

INBOUND_STAKING_REWARD == "Inbound > Staking Reward"
INBOUND_STAKING_WITHDRAWAL == "Inbound > Staking Withdrawal"
OUTBOUND_STAKING_DEPOSIT == "Outbound > Staking Deposit"
OUTBOUND_TRANSFER == "Outbound > Transfer"
SWAP_SWAP == "Swap > Swap"
INTERNAL_TRANSFER == "Internal Transfer"
IGNORE == "Ignore"

\* the values of the enumeration TaxBitCategory
TaxBitCategory ==
    {"Inbound > Buy", "Inbound > Income", "Inbound > Airdrop",
     INBOUND_STAKING_REWARD, INBOUND_STAKING_WITHDRAWAL,
     "Outbound > Sell", "Outbound > Expense", "Outbound > Fee",
     OUTBOUND_STAKING_DEPOSIT, OUTBOUND_TRANSFER, SWAP_SWAP, INTERNAL_TRANSFER, IGNORE}

\* the outcome of a call that ends in "AttributeError: 'list' object has no attribute 'get'"
AttributeError == "raise AttributeError"

TypeString(module, name) == [module |-> module, name |-> name]

\* Python's "needle in tx_type" for the needle module \o name
In(module, name, tx_type) ==
    /\ tx_type.name = name
    /\ (module = "" \/ tx_type.module = module)

\* any(e.get('type') == event_type for e in events)
AnyEvent(events, event_type) == \E i \in DOMAIN events : events[i].type = event_type

\* _classify_evm_transaction: the first event whose type contains 'ethereum_tx' decides
RECURSIVE ClassifyEvmTransaction(_)
ClassifyEvmTransaction(events) ==
    IF events = <<>> THEN OUTBOUND_TRANSFER
    ELSE LET event == Head(events)
         IN IF event.type = "ethereum_tx"
            THEN IF event.attributes.shape = "list"
                 THEN AttributeError                \* attributes.get on a list
                 ELSE LET recipient == event.attributes.recipient
                      IN IF recipient # "" /\ recipient # "0x-address"
                         THEN SWAP_SWAP
                         ELSE OUTBOUND_TRANSFER
            ELSE ClassifyEvmTransaction(Tail(events))

\* the category the redelegation branch returns
RedelegateCategoryIgnore == IGNORE

RedelegateCategory == INTERNAL_TRANSFER

\* a variant of the chain that tests the bank-transfer indicators first
ClassifyTransactionBankFirst(tx_data) ==
    LET tx_type == tx_data.type
        events == tx_data.events
    IN IF \/ In("", "MsgSend", tx_type)
          \/ In("/cosmos.bank.v1beta1.", "MsgSend", tx_type)
          \/ AnyEvent(events, "transfer")
       THEN OUTBOUND_TRANSFER
       ELSE IF \/ In("", "MsgDelegate", tx_type)
               \/ In("/cosmos.staking.v1beta1.", "MsgDelegate", tx_type)
               \/ AnyEvent(events, "delegate")
       THEN OUTBOUND_STAKING_DEPOSIT
       ELSE IF \/ In("", "MsgWithdrawDelegatorReward", tx_type)
               \/ In("/cosmos.distribution.v1beta1.", "MsgWithdrawDelegatorReward", tx_type)
               \/ AnyEvent(events, "withdraw_rewards")
       THEN INBOUND_STAKING_REWARD
       ELSE IF \/ In("", "MsgUndelegate", tx_type)
               \/ In("/cosmos.staking.v1beta1.", "MsgUndelegate", tx_type)
               \/ AnyEvent(events, "unbond")
       THEN INBOUND_STAKING_WITHDRAWAL
       ELSE IF \/ In("", "MsgBeginRedelegate", tx_type)
               \/ In("/cosmos.staking.v1beta1.", "MsgBeginRedelegate", tx_type)
               \/ AnyEvent(events, "redelegate")
       THEN RedelegateCategory
       ELSE IF \/ In("", "MsgEthereumTx", tx_type)
               \/ In("/ethermint.evm.v1.", "MsgEthereumTx", tx_type)
       THEN ClassifyEvmTransaction(events)
       ELSE IF \/ In("", "MsgTransfer", tx_type)
               \/ In("/ibc.applications.transfer.v1.", "MsgTransfer", tx_type)
               \/ AnyEvent(events, "ibc_transfer")
       THEN OUTBOUND_TRANSFER
       ELSE IF \/ In("", "MsgVote", tx_type)
               \/ In("", "MsgSubmitProposal", tx_type)
               \/ In("", "MsgDeposit", tx_type)
       THEN IGNORE
       ELSE OUTBOUND_TRANSFER

\* classify_transaction: the if / elif chain, in the order of the source
ClassifyTransaction(tx_data) ==
    LET tx_type == tx_data.type
        events == tx_data.events
    IN IF \/ In("", "MsgDelegate", tx_type)
          \/ In("/cosmos.staking.v1beta1.", "MsgDelegate", tx_type)
          \/ AnyEvent(events, "delegate")
       THEN OUTBOUND_STAKING_DEPOSIT
       ELSE IF \/ In("", "MsgWithdrawDelegatorReward", tx_type)
               \/ In("/cosmos.distribution.v1beta1.", "MsgWithdrawDelegatorReward", tx_type)
               \/ AnyEvent(events, "withdraw_rewards")
       THEN INBOUND_STAKING_REWARD
       ELSE IF \/ In("", "MsgUndelegate", tx_type)
               \/ In("/cosmos.staking.v1beta1.", "MsgUndelegate", tx_type)
               \/ AnyEvent(events, "unbond")
       THEN INBOUND_STAKING_WITHDRAWAL
       ELSE IF \/ In("", "MsgBeginRedelegate", tx_type)
               \/ In("/cosmos.staking.v1beta1.", "MsgBeginRedelegate", tx_type)
               \/ AnyEvent(events, "redelegate")
       THEN RedelegateCategory
       ELSE IF \/ In("", "MsgSend", tx_type)
               \/ In("/cosmos.bank.v1beta1.", "MsgSend", tx_type)
               \/ AnyEvent(events, "transfer")
       THEN OUTBOUND_TRANSFER
       ELSE IF \/ In("", "MsgEthereumTx", tx_type)
               \/ In("/ethermint.evm.v1.", "MsgEthereumTx", tx_type)
       THEN ClassifyEvmTransaction(events)
       ELSE IF \/ In("", "MsgTransfer", tx_type)
               \/ In("/ibc.applications.transfer.v1.", "MsgTransfer", tx_type)
               \/ AnyEvent(events, "ibc_transfer")
       THEN OUTBOUND_TRANSFER
       ELSE IF \/ In("", "MsgVote", tx_type)
               \/ In("", "MsgSubmitProposal", tx_type)
               \/ In("", "MsgDeposit", tx_type)
       THEN IGNORE
       ELSE OUTBOUND_TRANSFER

-----------------------------------------------------------------------------
(* The classifier applied to every bounded input: specification SpecClassify *)

\* longest event list of a classified transaction
MaxEvents == 2

\* the message type strings of the model: the empty string, types the chain does
\* not know, and every type it tests, bare and with its protobuf package
TypeStrings ==
    {TypeString("", ""), TypeString("", "unknown"), TypeString("", "EVM_Fallback")} \cup
    {TypeString(m, "MsgDelegate") : m \in {"", "/cosmos.staking.v1beta1."}} \cup
    {TypeString(m, "MsgWithdrawDelegatorReward") : m \in {"", "/cosmos.distribution.v1beta1."}} \cup
    {TypeString(m, "MsgUndelegate") : m \in {"", "/cosmos.staking.v1beta1."}} \cup
    {TypeString(m, "MsgBeginRedelegate") : m \in {"", "/cosmos.staking.v1beta1."}} \cup
    {TypeString(m, "MsgSend") : m \in {"", "/cosmos.bank.v1beta1."}} \cup
    {TypeString(m, "MsgEthereumTx") : m \in {"", "/ethermint.evm.v1."}} \cup
    {TypeString(m, "MsgTransfer") : m \in {"", "/ibc.applications.transfer.v1."}} \cup
    {TypeString(m, n) : m \in {"", "/cosmos.gov.v1beta1."},
                        n \in {"MsgVote", "MsgSubmitProposal", "MsgDeposit"}}

\* attribute containers: a dict with no, a 0x-shaped or another recipient, or a list
AttributeValues ==
    {[shape |-> "dict", recipient |-> r] : r \in {"", "0x-address", "contract-name"}} \cup
    {[shape |-> "list", recipient |-> ""]}

EventTypes ==
    {"delegate", "withdraw_rewards", "unbond", "redelegate", "transfer",
     "ibc_transfer", "message", "ethereum_tx"}

\* the attributes matter to the classifier for 'ethereum_tx' events only
EventValues ==
    {[type |-> "ethereum_tx", attributes |-> a] : a \in AttributeValues} \cup
    {[type |-> t, attributes |-> [shape |-> "dict", recipient |-> ""]] :
        t \in EventTypes \ {"ethereum_tx"}}

ClassifyInputs ==
    {[type |-> t, events |-> e] : t \in TypeStrings, e \in SeqUpTo(EventValues, MaxEvents)}

InitClassify ==
    /\ IdlePipeline
    /\ arg \in ClassifyInputs
    /\ ret = ""
    /\ phase = "input"

CallClassify ==
    /\ phase = "input"
    /\ ret' = ClassifyTransaction(arg)
    /\ phase' = "returned"
    /\ UNCHANGED <<arg, pipelineVars>>

NextClassify == CallClassify

SpecClassify == InitClassify /\ [][NextClassify]_vars

\* the kinds of indicator
StakingDeposit == "staking-deposit"
StakingReward == "staking-reward"
StakingWithdrawal == "staking-withdrawal"
Redelegate == "redelegate"
BankTransfer == "bank-transfer"
EvmTransaction == "EVM-transaction"
IbcTransfer == "IBC-transfer"
GovernanceAction == "governance-action"
Default == "default"

\* the order in which the kinds are to be evaluated
KindOrder ==
    <<StakingDeposit, StakingReward, StakingWithdrawal, Redelegate, BankTransfer,
      EvmTransaction, IbcTransfer, GovernanceAction, Default>>

\* the place of a kind in the order
Rank(k) == CHOOSE i \in DOMAIN KindOrder : KindOrder[i] = k

\* the kind a message type name indicates
KindOfTypeName(name) ==
    CASE name = "MsgDelegate" -> StakingDeposit
      [] name = "MsgWithdrawDelegatorReward" -> StakingReward
      [] name = "MsgUndelegate" -> StakingWithdrawal
      [] name = "MsgBeginRedelegate" -> Redelegate
      [] name = "MsgSend" -> BankTransfer
      [] name = "MsgEthereumTx" -> EvmTransaction
      [] name = "MsgTransfer" -> IbcTransfer
      [] name \in {"MsgVote", "MsgSubmitProposal", "MsgDeposit"} -> GovernanceAction
      [] OTHER -> Default

\* the kind an event type indicates
KindOfEventType(type) ==
    CASE type = "delegate" -> StakingDeposit
      [] type = "withdraw_rewards" -> StakingReward
      [] type = "unbond" -> StakingWithdrawal
      [] type = "redelegate" -> Redelegate
      [] type = "transfer" -> BankTransfer
      [] type = "ibc_transfer" -> IbcTransfer
      [] OTHER -> Default

\* the kinds a transaction carries an indicator of (Default: always)
IndicatedKinds(tx_data) ==
    {KindOfTypeName(tx_data.type.name)} \cup
    {KindOfEventType(tx_data.events[i].type) : i \in DOMAIN tx_data.events} \cup
    {Default}

\* the kind that comes earliest in the order
EarliestKind(tx_data) ==
    CHOOSE k \in IndicatedKinds(tx_data) :
        \A j \in IndicatedKinds(tx_data) : Rank(k) <= Rank(j)

\* the transaction with the indicators of every kind but k taken away
OnlyKind(tx_data, k) ==
    [type |-> IF KindOfTypeName(tx_data.type.name) = k
              THEN tx_data.type ELSE TypeString("", ""),
     events |-> SelectSeq(tx_data.events,
                          LAMBDA e : KindOfEventType(e.type) \in {k, Default})]

(* C7, as stated: classify_transaction returns a member of the category      *)
(* enumeration for every (message type, events) input, without raising, and  *)
(* returns OutboundTransfer when no indicator matches.                       *)
C7_ClassifyTotal ==
    phase = "returned" =>
        /\ ret \in TaxBitCategory
        /\ (IndicatedKinds(arg) = {Default} => ret = OUTBOUND_TRANSFER)

(* C8: for a transaction carrying indicators of several kinds, the result is *)
(* the one the classifier gives the same transaction carrying only the       *)
(* indicators of the kind that comes earliest in the order staking-deposit,  *)
(* staking-reward, staking-withdrawal, redelegate, bank-transfer,            *)
(* EVM-transaction, IBC-transfer, governance-action, default.                *)
C8_EarliestKindDecides ==
    phase = "returned" =>
        /\ ret = ClassifyTransaction(OnlyKind(arg, EarliestKind(arg)))
        /\ (EarliestKind(arg) = StakingDeposit => ret = OUTBOUND_STAKING_DEPOSIT)
        /\ (EarliestKind(arg) = StakingReward => ret = INBOUND_STAKING_REWARD)
        /\ (EarliestKind(arg) = StakingWithdrawal => ret = INBOUND_STAKING_WITHDRAWAL)
        /\ (EarliestKind(arg) \in {BankTransfer, IbcTransfer, Default} => ret = OUTBOUND_TRANSFER)
        /\ (EarliestKind(arg) = GovernanceAction => ret = IGNORE)

\* a transaction with indicators of three kinds, classified by the earliest
C8_Witness ==
    /\ phase = "returned"
    /\ Cardinality(IndicatedKinds(arg) \ {Default}) >= 3
    /\ EarliestKind(arg) = StakingReward
    /\ ret = INBOUND_STAKING_REWARD

\* the only indicator of the transaction is redelegation
OnlyRedelegate(tx_data) == IndicatedKinds(tx_data) = {Redelegate, Default}

(* C9, as stated: a transaction whose only indicator is redelegation is      *)
(* classified as Ignore.                                                     *)
C9_RedelegateIgnored ==
    (phase = "returned" /\ OnlyRedelegate(arg)) => ret = IGNORE

(* C9, amended: a transaction whose only indicator is redelegation is        *)
(* classified as Internal Transfer.                                          *)
C9_RedelegateInternalTransfer ==
    (phase = "returned" /\ OnlyRedelegate(arg)) => ret = INTERNAL_TRANSFER

\* a MsgBeginRedelegate transaction with a 'redelegate' event has been classified
C9_Witness ==
    /\ phase = "returned"
    /\ OnlyRedelegate(arg)
    /\ arg.type.name = "MsgBeginRedelegate"
    /\ AnyEvent(arg.events, "redelegate")
    /\ ret = INTERNAL_TRANSFER

-----------------------------------------------------------------------------
(* convert_amount                                                            *)
(*                                                                           *)
(* The amounts exceed the integers of the model checker, so a natural number *)
(* is the sequence of its digits in base 2^LimbBits, least significant       *)
(* first, without leading zeros: << >> is 0, <<1>> is 1, <<0, 1>> is 2^15.   *)
(* A float is [mantissa, exponent], the number mantissa * 2^exponent with a  *)
(* mantissa of at most 53 bits (2^53 itself after a carry), which is what an *)
(* IEEE-754 double holds in the range of these amounts.  The quotient        *)
(* amount / 10^decimals has at most 28 significant digits for the amounts of *)
(* the model, so the Decimal division is exact and float() rounds once.      *)

\* the bits of a double's significand
MantissaBits == 53

\* the bits of one digit of an arbitrary-precision integer
LimbBits == 15

Base == 2^LimbBits

ZeroLimbs(k) == [i \in 1..k |-> 0]

RECURSIVE Norm(_)
Norm(x) ==
    IF x = <<>> THEN <<>>
    ELSE IF x[Len(x)] = 0 THEN Norm(SubSeq(x, 1, Len(x) - 1))
    ELSE x

\* x * n + carry for small n and carry
RECURSIVE MulAdd(_, _, _)
MulAdd(x, n, carry) ==
    IF x = <<>> THEN (IF carry = 0 THEN <<>> ELSE <<carry>>)
    ELSE LET p == Head(x) * n + carry
         IN <<p % Base>> \o MulAdd(Tail(x), n, p \div Base)

MulSmall(x, n) == Norm(MulAdd(x, n, 0))

AddSmall(x, n) == MulAdd(x, 1, n)

\* x divided by a small n, from the most significant digit down:
\* [q, r] with x = q * n + r and r < n
RECURSIVE DivSmall(_, _)
DivSmall(x, n) ==
    IF x = <<>> THEN [q |-> <<>>, r |-> 0]
    ELSE LET upper == DivSmall(Tail(x), n)
             cur == upper.r * Base + Head(x)
         IN [q |-> <<cur \div n>> \o upper.q, r |-> cur % n]

\* the number of bits of a digit
BitLenSmall(t) == CHOOSE j \in 0..LimbBits : t < 2^j /\ (j = 0 \/ t >= 2^(j - 1))

BitLen(x) == IF x = <<>> THEN 0 ELSE LimbBits * (Len(x) - 1) + BitLenSmall(x[Len(x)])

\* x * 2^k
ShiftLeft(x, k) ==
    IF x = <<>> THEN <<>>
    ELSE ZeroLimbs(k \div LimbBits) \o MulSmall(x, 2^(k % LimbBits))

\* [q, exact]: q = floor(x / 2^k), exact iff no bit was shifted out
ShiftRight(x, k) ==
    LET limbs == k \div LimbBits
    IN IF Len(x) <= limbs THEN [q |-> <<>>, exact |-> x = <<>>]
       ELSE LET d == DivSmall(SubSeq(x, limbs + 1, Len(x)), 2^(k % LimbBits))
            IN [q |-> Norm(d.q),
                exact |-> d.r = 0 /\ \A i \in 1..limbs : x[i] = 0]

\* x * 10^decimals, three decimal places at a time
RECURSIVE MulPow10(_, _)
MulPow10(x, decimals) ==
    IF decimals = 0 THEN x
    ELSE IF decimals >= 3 THEN MulPow10(MulSmall(x, 1000), decimals - 3)
    ELSE MulPow10(MulSmall(x, 10), decimals - 1)

\* [q, exact]: q = floor(x / 10^decimals), exact iff the remainder is 0;
\* three decimal places at a time
RECURSIVE DivPow10(_, _)
DivPow10(x, decimals) ==
    IF decimals = 0 THEN [q |-> x, exact |-> TRUE]
    ELSE LET places == IF decimals >= 3 THEN 3 ELSE 1
             d == DivSmall(x, 10^places)
             rest == DivPow10(Norm(d.q), decimals - places)
         IN [q |-> rest.q, exact |-> d.r = 0 /\ rest.exact]

\* Decimal(amount_str) for a string of decimal digits, most significant first
RECURSIVE FromDigits(_, _)
FromDigits(digits, acc) ==
    IF digits = <<>> THEN acc
    ELSE FromDigits(Tail(digits), AddSmall(MulSmall(acc, 10), Head(digits)))

\* the float without low zero bits in the mantissa: one form per value
RECURSIVE Canonical(_)
Canonical(f) ==
    IF f.mantissa = <<>> THEN [mantissa |-> <<>>, exponent |-> 0]
    ELSE IF Head(f.mantissa) = 0
         THEN Canonical([mantissa |-> Tail(f.mantissa), exponent |-> f.exponent + LimbBits])
    ELSE IF Head(f.mantissa) % 2 = 0
         THEN Canonical([mantissa |-> Norm(DivSmall(f.mantissa, 2).q),
                         exponent |-> f.exponent + 1])
    ELSE f

\* float(n / 10^decimals): the double nearest to the quotient, ties to the even mantissa
Float(n, decimals) ==
    IF n = <<>> THEN [mantissa |-> <<>>, exponent |-> 0]
    ELSE LET need == MantissaBits + 2 + BitLen(MulPow10(<<1>>, decimals)) - BitLen(n)
             k == IF need > 0 THEN need ELSE 0
             dm == DivPow10(ShiftLeft(n, k), decimals)
             drop == BitLen(dm.q) - MantissaBits
             withRound == ShiftRight(dm.q, drop - 1)
             half == DivSmall(withRound.q, 2)
             m0 == Norm(half.q)
             sticky == ~withRound.exact \/ ~dm.exact
             up == half.r = 1 /\ (sticky \/ Head(m0) % 2 = 1)
         IN Canonical([mantissa |-> IF up THEN AddSmall(m0, 1) ELSE m0,
                       exponent |-> drop - k])

\* a str is a sequence of one-character strings
LowerLetters ==
    <<"a", "b", "c", "d", "e", "f", "g", "h", "i", "j", "k", "l", "m",
      "n", "o", "p", "q", "r", "s", "t", "u", "v", "w", "x", "y", "z">>

UpperLetters ==
    <<"A", "B", "C", "D", "E", "F", "G", "H", "I", "J", "K", "L", "M",
      "N", "O", "P", "Q", "R", "S", "T", "U", "V", "W", "X", "Y", "Z">>

\* str.lower
Lower(s) ==
    [i \in 1..Len(s) |->
        IF \E j \in 1..Len(UpperLetters) : UpperLetters[j] = s[i]
        THEN LowerLetters[CHOOSE j \in 1..Len(UpperLetters) : UpperLetters[j] = s[i]]
        ELSE s[i]]

\* str.upper
Upper(s) ==
    [i \in 1..Len(s) |->
        IF \E j \in 1..Len(LowerLetters) : LowerLetters[j] = s[i]
        THEN UpperLetters[CHOOSE j \in 1..Len(LowerLetters) : LowerLetters[j] = s[i]]
        ELSE s[i]]

\* s.startswith(prefix)
StartsWith(s, prefix) ==
    Len(s) >= Len(prefix) /\ SubSeq(s, 1, Len(prefix)) = prefix

\* s[:n]
Slice(s, n) == SubSeq(s, 1, IF Len(s) < n THEN Len(s) ELSE n)

\* TokenRegistry.tokens after __init__
Tokens ==
    (<<"c", "i", "n", "t">> :> [symbol |-> <<"C", "I", "N", "T">>, decimals |-> 18]) @@
    (<<"u", "c", "i", "n", "t">> :> [symbol |-> <<"C", "I", "N", "T">>, decimals |-> 6]) @@
    (<<"a", "c", "i", "n", "t">> :> [symbol |-> <<"C", "I", "N", "T">>, decimals |-> 18]) @@
    (<<"u", "s", "d", "c">> :> [symbol |-> <<"U", "S", "D", "C">>, decimals |-> 6]) @@
    (<<"u", "s", "d", "t">> :> [symbol |-> <<"U", "S", "D", "T">>, decimals |-> 6]) @@
    (<<"w", "e", "t", "h">> :> [symbol |-> <<"W", "E", "T", "H">>, decimals |-> 18])

\* the denominations the parsers of the service produce, and registered ones
Denoms ==
    {<<"c", "i", "n", "t">>, <<"u", "c", "i", "n", "t">>, <<"u", "s", "d", "c">>,
     <<"w", "e", "t", "h">>, <<"u", "c", "t", "r">>}

\* the length of an EVM contract address written in hex with its 0x prefix
ContractLength == 42

\* TokenRegistry.register_token with the lookup key left as it was given
RegisterTokenKeyAsGiven(tokens, denom, symbol, decimals) ==
    [d \in DOMAIN tokens \cup {denom} |->
        IF d = denom THEN [symbol |-> symbol, decimals |-> decimals]
        ELSE tokens[d]]

\* TokenRegistry.register_token
RegisterToken(tokens, denom, symbol, decimals) ==
    [d \in DOMAIN tokens \cup {Lower(denom)} |->
        IF d = Lower(denom) THEN [symbol |-> symbol, decimals |-> decimals]
        ELSE tokens[d]]

\* TokenRegistry.get_token_info
GetTokenInfo(tokens, denom_or_contract) ==
    LET denom_lower == Lower(denom_or_contract)
    IN IF denom_lower \in DOMAIN tokens THEN tokens[denom_lower]
       ELSE IF StartsWith(denom_lower, <<"0", "x">>) /\ Len(denom_lower) = ContractLength
            THEN [symbol |-> <<"T", "O", "K", "E", "N", "_">> \o Slice(denom_lower, 6),
                  decimals |-> 18]
            ELSE [symbol |-> Upper(denom_or_contract), decimals |-> 0]

\* convert_amount: amount_str is a string of decimal digits; Decimal('') raises
\* and the handler answers (0.0, denom.upper())
ConvertAmount(amount_str, denom) ==
    IF amount_str = <<>>
    THEN [amount |-> [mantissa |-> <<>>, exponent |-> 0], currency |-> Upper(denom)]
    ELSE LET amount == FromDigits(amount_str, <<>>)
             token_info == GetTokenInfo(Tokens, denom)
             decimals == token_info.decimals
         IN [amount |-> IF decimals > 0 THEN Float(amount, decimals)
                        ELSE Float(amount, 0),
             currency |-> token_info.symbol]

-----------------------------------------------------------------------------
(* convert_amount applied to bounded inputs: specification SpecAmount        *)

\* longest run of nines or zeros in a raw amount
MaxAmountDigits == 19

Nines(k) == [i \in 1..k |-> 9]

\* raw amounts: the empty string, the digits, 9...9, 10...0 and some others
AmountStrings ==
    {<<>>} \cup {<<d>> : d \in 0..9} \cup
    {Nines(k) : k \in 2..MaxAmountDigits} \cup
    {<<1>> \o [i \in 1..k |-> 0] : k \in 1..MaxAmountDigits} \cup
    {<<1, 5, 0, 0, 0, 0, 0>>, <<1, 5, 6, 2, 5>>, <<1, 2, 3, 4, 5, 6, 7, 8, 9>>,
     <<9, 0, 0, 7, 1, 9, 9, 2, 5, 4, 7, 4, 0, 9, 9, 3>>}

InitAmount ==
    /\ IdlePipeline
    /\ arg \in {[amount_str |-> a, denom |-> d] : a \in AmountStrings, d \in Denoms}
    /\ ret = <<>>
    /\ phase = "input"

CallAmount ==
    /\ phase = "input"
    /\ ret' = ConvertAmount(arg.amount_str, arg.denom)
    /\ phase' = "returned"
    /\ UNCHANGED <<arg, pipelineVars>>

NextAmount == CallAmount

SpecAmount == InitAmount /\ [][NextAmount]_vars

\* display * 10^decimals = raw, in exact arithmetic
RoundTrips(display, decimals, raw) ==
    IF display.exponent >= 0
    THEN MulPow10(ShiftLeft(display.mantissa, display.exponent), decimals) = raw
    ELSE MulPow10(display.mantissa, decimals) = ShiftLeft(raw, 0 - display.exponent)

(* C10, as stated: for every non-negative integer raw amount and every       *)
(* registered number of decimals, the display amount d that convert_amount   *)
(* returns satisfies d * 10^decimals = raw amount exactly.                   *)
C10_ExactRoundTrip ==
    (phase = "returned" /\ arg.amount_str # <<>>) =>
        RoundTrips(ret.amount, GetTokenInfo(Tokens, arg.denom).decimals,
                   FromDigits(arg.amount_str, <<>>))

-----------------------------------------------------------------------------
(* The token registry: specification SpecRegistry                            *)

\* most calls of register_token before the lookup
MaxRegister == 2

\* prefix followed by n copies of the character ch
Padded(prefix, ch, n) == prefix \o [i \in 1..n |-> ch]

\* contract addresses and near misses: one character short, one too long,
\* another prefix
ContractInputs ==
    {Padded(<<"0", "x">>, "a", ContractLength - 2),
     Padded(<<"0", "X">>, "A", ContractLength - 2),
     Padded(<<"0", "x", "A", "b", "C", "d", "E", "f">>, "1", ContractLength - 8),
     Padded(<<"0", "x">>, "a", ContractLength - 3),
     Padded(<<"0", "x">>, "a", ContractLength - 1),
     Padded(<<"1", "x">>, "a", ContractLength - 2)}

\* the arguments of get_token_info
DenomInputs ==
    Denoms \cup ContractInputs \cup
    {<<>>, <<"C", "I", "N", "T">>, <<"u", "C", "i", "n", "t">>, <<"U", "s", "d", "C">>,
     <<"f", "o", "o">>, <<"F", "o", "O">>, <<"u", "c", "t", "R">>}

\* the arguments of register_token
RegisterInputs ==
    [denom : {<<"f", "o", "o">>, <<"F", "O", "O">>, <<"U", "S", "D", "C">>,
              Padded(<<"0", "x">>, "a", ContractLength - 2)},
     symbol : {<<"F", "O", "O">>, <<"U", "S", "D", "C", ".", "e">>},
     decimals : {0, 8}]

InitRegistry ==
    /\ IdlePipeline
    /\ \E d \in DenomInputs :
           arg = [tokens |-> Tokens, calls |-> <<>>, denom_or_contract |-> d]
    /\ ret = <<>>
    /\ phase = "input"

\* one call of register_token; arg.calls keeps the arguments of the calls made
CallRegisterToken ==
    /\ phase = "input"
    /\ Len(arg.calls) < MaxRegister
    /\ \E r \in RegisterInputs :
           arg' = [arg EXCEPT !.tokens = RegisterToken(@, r.denom, r.symbol, r.decimals),
                              !.calls = Append(@, r)]
    /\ UNCHANGED <<ret, phase, pipelineVars>>

CallGetTokenInfo ==
    /\ phase = "input"
    /\ ret' = GetTokenInfo(arg.tokens, arg.denom_or_contract)
    /\ phase' = "returned"
    /\ UNCHANGED <<arg, pipelineVars>>

NextRegistry == CallRegisterToken \/ CallGetTokenInfo

SpecRegistry == InitRegistry /\ [][NextRegistry]_vars

\* the calls of register_token that named d, whatever the case of the letters
CallsNaming(calls, d) == {i \in 1..Len(calls) : Lower(calls[i].denom) = Lower(d)}

\* d is a default denomination or was registered, compared case-insensitively
IsRegistered(calls, d) ==
    \/ CallsNaming(calls, d) # {}
    \/ \E k \in DOMAIN Tokens : k = Lower(d)

\* what was registered for d: the latest registration, else the default entry
RegisteredInfo(calls, d) ==
    IF CallsNaming(calls, d) # {}
    THEN LET last == CHOOSE i \in CallsNaming(calls, d) :
                         \A j \in CallsNaming(calls, d) : j <= i
         IN [symbol |-> calls[last].symbol, decimals |-> calls[last].decimals]
    ELSE Tokens[CHOOSE k \in DOMAIN Tokens : k = Lower(d)]

\* d is written as 0x (or 0X) and 40 more characters
IsContractAddress(d) ==
    Len(d) = ContractLength /\ d[1] = "0" /\ d[2] \in {"x", "X"}

(* C11: get_token_info always returns an entry: a registered denomination,   *)
(* compared case-insensitively, yields its registered symbol and decimals;   *)
(* an unregistered 0x-prefixed 42-character contract address yields a        *)
(* synthesized fallback symbol with 18 decimals; any other unknown           *)
(* denomination yields 0 decimals.                                           *)
C11_TokenInfoTotal ==
    phase = "returned" =>
        LET d == arg.denom_or_contract
        IN /\ DOMAIN ret = {"symbol", "decimals"}
           /\ IsRegistered(arg.calls, d) => ret = RegisteredInfo(arg.calls, d)
           /\ (~IsRegistered(arg.calls, d) /\ IsContractAddress(d)) =>
                  /\ ret.decimals = 18
                  /\ StartsWith(ret.symbol, <<"T", "O", "K", "E", "N", "_">>)
           /\ (~IsRegistered(arg.calls, d) /\ ~IsContractAddress(d)) =>
                  ret.decimals = 0

\* a denomination registered in capitals was looked up in other letters and found
C11_Witness ==
    /\ phase = "returned"
    /\ CallsNaming(arg.calls, arg.denom_or_contract) # {}
    /\ \A i \in 1..Len(arg.calls) : arg.calls[i].denom # arg.denom_or_contract
    /\ ret.decimals = 8

-----------------------------------------------------------------------------
(* The export pipeline: export_address_transactions                          *)

\* the column names of the CSV, in order
TAXBIT_CSV_HEADERS ==
    <<"timestamp", "txid", "source_name", "from_wallet_address", "to_wallet_address",
      "category", "in_currency", "in_amount", "in_currency_fiat", "in_amount_fiat",
      "out_currency", "out_amount", "out_currency_fiat", "out_amount_fiat",
      "fee_currency", "fee", "fee_currency_fiat", "fee_fiat", "memo", "status">>

\* the scan stops once it holds this many transactions
ResultLimit == 50

\* the scan stops once it has examined this many records
ScanLimit == 15000

\* the scan ignores the match limit
LimitReachedScanOnly(found, scanned_count) == scanned_count >= ScanLimit

\* the limits of the scan loop: enough transactions, or enough records examined
LimitReached(found, scanned_count) ==
    Len(found) >= ResultLimit \/ scanned_count >= ScanLimit

\* "0x" + sha256(key).hexdigest(): one hash string per key
Sha256Hex(key) == 100 + key

\* the amount _production_extract_amounts finds first in the values of the
\* model's store, in wei
PrimaryAmount == <<1, 5, 0, 0, 0, 0, 0>>

\* the dict _production_parse_leveldb_transaction builds from the hash, the
\* extracted addresses and the primary amount; empty is the empty string of
\* the addresses' representation
LeveldbTransaction(tx_hash, from_addr, to_addr, primary_amount, user_address, clock, empty) ==
    [hash |-> tx_hash,
     type |-> TypeString("", "MsgEthereumTx"),
     from_address |-> IF from_addr = empty THEN user_address ELSE from_addr,
     to_address |-> to_addr,
     amount |-> primary_amount,
     denom |-> <<"c", "i", "n", "t">>,
     success |-> TRUE,
     timestamp |-> clock,
     fee |-> <<0>>,
     memo |-> "LevelDB extraction",
     events |-> <<[type |-> "ethereum_tx",
                   attributes |-> [shape |-> "dict", recipient |-> "", sender |-> "",
                                   delegator |-> "", validator |-> "",
                                   amount |-> [digits |-> primary_amount, denom |-> <<>>]]]>>]

\* _production_parse_leveldb_transaction for the values of the model's store:
\* the record's key gives the hash, the clock the timestamp; no address is
\* extracted from the value, so the sender is the user
ProductionParseLeveldbTransaction(key, user_address, clock) ==
    LeveldbTransaction(Sha256Hex(key), "", "", PrimaryAmount, user_address, clock, "")

\* _transaction_in_date_range: accepts every transaction
TransactionInDateRange(tx, sd, ed) ==
    IF sd = NoDate /\ ed = NoDate THEN TRUE ELSE TRUE

\* the answer of the block query for a transaction's height failed
NoBlock == 98

\* _get_block_timestamp: the block header's time, or the clock when the query fails
GetBlockTimestamp(time, clock) == IF time = NoBlock THEN clock ELSE time

\* tx_result.gas_used in the node's answers
GasUsed == <<2, 1, 0, 0, 0>>

\* _parse_evm_transactions: one transaction per entry of the node's answer
\* (tx_result.code is 0)
ParseEvmTransactions(cosmos_txs, user_address, clock) ==
    [i \in DOMAIN cosmos_txs |->
        [hash |-> cosmos_txs[i].hash,
         timestamp |-> GetBlockTimestamp(cosmos_txs[i].time, clock),
         success |-> TRUE,
         type |-> TypeString("", "MsgEthereumTx"),
         from_address |-> user_address,
         to_address |-> "",
         amount |-> <<0>>,
         denom |-> <<"u", "c", "t", "r">>,
         fee |-> GasUsed,
         memo |-> "EVM Transaction",
         events |-> <<>>]]

\* convert_transaction, the timestamp: None for a falsy one, the clock for a
\* string that is no ISO-8601 instant
RowTimestamp(timestamp, clock) ==
    IF timestamp = 0 THEN 0
    ELSE IF timestamp = Unparsable THEN clock
    ELSE timestamp

\* an amount attribute of TaxBitTransaction that is None (an empty cell); a
\* currency that is None is the empty string of characters
None == [none |-> TRUE]

\* TaxBitTransaction(): the attributes the _process_ methods assign
TaxBitTransaction ==
    [raised |-> FALSE,
     from_wallet_address |-> "", to_wallet_address |-> "",
     in_currency |-> <<>>, in_amount |-> None,
     out_currency |-> <<>>, out_amount |-> None,
     fee_currency |-> <<>>, fee |-> None]

\* the categories whose value starts with 'Inbound'
InboundCategories ==
    {"Inbound > Buy", "Inbound > Income", "Inbound > Airdrop",
     INBOUND_STAKING_REWARD, INBOUND_STAKING_WITHDRAWAL}

\* the categories whose value starts with 'Outbound'
OutboundCategories ==
    {"Outbound > Sell", "Outbound > Expense", "Outbound > Fee",
     OUTBOUND_STAKING_DEPOSIT, OUTBOUND_TRANSFER}

\* an attribute such as '1000000ucint' is [digits, denom]; '' has neither
\* _parse_amount_with_denom: digits then a denomination, else the whole
\* string with 'ucint' (<<>> stands for a string Decimal rejects)
ParseAmountWithDenom(amount_str) ==
    IF amount_str.digits # <<>> /\ amount_str.denom # <<>>
    THEN [amount |-> amount_str.digits, denom |-> amount_str.denom]
    ELSE [amount |-> IF amount_str.denom = <<>> THEN amount_str.digits ELSE <<>>,
          denom |-> <<"u", "c", "i", "n", "t">>]

\* "if amount_str:"
Truthy(amount_str) == amount_str.digits # <<>> \/ amount_str.denom # <<>>

\* convert_amount of the parsed attribute
ConvertAttribute(amount_str) ==
    LET parsed == ParseAmountWithDenom(amount_str)
    IN ConvertAmount(parsed.amount, parsed.denom)

\* the event at which a loop over the events breaks, as a sequence of at most
\* one event: the first of the events that match
FirstEvent(matching) ==
    IF matching = <<>> THEN <<>> ELSE <<Head(matching)>>

\* _process_staking_transaction, the assignments: a delegation writes the
\* out_ columns, rewards and an undelegation write the in_ columns
AssignStaking(taxbit_tx, event_type, attributes, converted) ==
    IF event_type = "delegate"
    THEN [taxbit_tx EXCEPT !.out_currency = converted.currency,
                           !.out_amount = converted.amount,
                           !.from_wallet_address = attributes.delegator,
                           !.to_wallet_address = attributes.validator]
    ELSE [taxbit_tx EXCEPT !.in_currency = converted.currency,
                           !.in_amount = converted.amount,
                           !.to_wallet_address = attributes.delegator,
                           !.from_wallet_address = attributes.validator]

\* _process_staking_transaction, the branch of the event found:
\* attributes.get raises on a list of attributes
StakingEvent(taxbit_tx, event_type, attributes) ==
    IF attributes.shape = "list" THEN [taxbit_tx EXCEPT !.raised = TRUE]
    ELSE IF ~Truthy(attributes.amount) THEN taxbit_tx
    ELSE AssignStaking(taxbit_tx, event_type, attributes,
                       ConvertAttribute(attributes.amount))

\* _process_staking_transaction: the first event of the category's type decides
ProcessStakingTransaction(taxbit_tx, category, events) ==
    LET Matches(event) ==
            \/ event.type = "delegate" /\ category = OUTBOUND_STAKING_DEPOSIT
            \/ event.type = "withdraw_rewards" /\ category = INBOUND_STAKING_REWARD
            \/ event.type = "unbond" /\ category = INBOUND_STAKING_WITHDRAWAL
        found == FirstEvent(SelectSeq(events, Matches))
    IN IF found = <<>> THEN taxbit_tx
       ELSE StakingEvent(taxbit_tx, found[1].type, found[1].attributes)

\* _process_transfer_transaction, the assignments
AssignTransfer(taxbit_tx, category, attributes, converted) ==
    IF category = OUTBOUND_TRANSFER
    THEN [taxbit_tx EXCEPT !.from_wallet_address = attributes.sender,
                           !.to_wallet_address = attributes.recipient,
                           !.out_currency = converted.currency,
                           !.out_amount = converted.amount]
    ELSE [taxbit_tx EXCEPT !.from_wallet_address = attributes.sender,
                           !.to_wallet_address = attributes.recipient,
                           !.in_currency = converted.currency,
                           !.in_amount = converted.amount]

\* _process_transfer_transaction, the branch of the 'transfer' event
TransferEvent(taxbit_tx, category, attributes) ==
    IF attributes.shape = "list" THEN [taxbit_tx EXCEPT !.raised = TRUE]
    ELSE IF ~Truthy(attributes.amount) THEN taxbit_tx
    ELSE AssignTransfer(taxbit_tx, category, attributes,
                        ConvertAttribute(attributes.amount))

\* _process_transfer_transaction: the first 'transfer' event decides
ProcessTransferTransaction(taxbit_tx, category, events) ==
    LET Matches(event) == event.type = "transfer"
        found == FirstEvent(SelectSeq(events, Matches))
    IN IF found = <<>> THEN taxbit_tx
       ELSE TransferEvent(taxbit_tx, category, found[1].attributes)

\* _process_swap_transaction, the assignments: the first transfer is what
\* was sold, the second what was bought
AssignSwap(taxbit_tx, transfers) ==
    IF Len(transfers) >= 2
    THEN [taxbit_tx EXCEPT !.out_currency = transfers[1].currency,
                           !.out_amount = transfers[1].amount,
                           !.in_currency = transfers[2].currency,
                           !.in_amount = transfers[2].amount]
    ELSE taxbit_tx

\* _process_swap_transaction: the 'transfer' events with an amount
ProcessSwapTransaction(taxbit_tx, events) ==
    LET IsTransfer(event) == event.type = "transfer"
        HasAmount(event) == IsTransfer(event) /\ Truthy(event.attributes.amount)
        with_amount == SelectSeq(events, HasAmount)
    IN IF \E i \in DOMAIN events :
              IsTransfer(events[i]) /\ events[i].attributes.shape = "list"
       THEN [taxbit_tx EXCEPT !.raised = TRUE]
       ELSE AssignSwap(taxbit_tx,
                       [i \in DOMAIN with_amount |->
                           ConvertAttribute(with_amount[i].attributes.amount)])

\* _process_generic_transaction, the assignments
AssignGeneric(tx_data, taxbit_tx, category, converted) ==
    [taxbit_tx EXCEPT
        !.from_wallet_address = tx_data.from_address,
        !.to_wallet_address = tx_data.to_address,
        !.in_currency = IF category \in InboundCategories THEN converted.currency ELSE @,
        !.in_amount = IF category \in InboundCategories THEN converted.amount ELSE @,
        !.out_currency = IF category \in OutboundCategories THEN converted.currency ELSE @,
        !.out_amount = IF category \in OutboundCategories THEN converted.amount ELSE @]

\* _process_generic_transaction: the transaction's own amount and denom
ProcessGenericTransaction(tx_data, taxbit_tx, category) ==
    IF tx_data.amount # <<>> /\ tx_data.amount # <<0>>
    THEN AssignGeneric(tx_data, taxbit_tx, category,
                       ConvertAmount(tx_data.amount, tx_data.denom))
    ELSE taxbit_tx

\* _process_transaction_details: the category chooses the method
ProcessTransactionDetails(tx_data, taxbit_tx, category) ==
    IF category \in {OUTBOUND_STAKING_DEPOSIT, INBOUND_STAKING_WITHDRAWAL,
                     INBOUND_STAKING_REWARD}
    THEN ProcessStakingTransaction(taxbit_tx, category, tx_data.events)
    ELSE IF category \in {OUTBOUND_TRANSFER, "Inbound > Buy"}
    THEN ProcessTransferTransaction(taxbit_tx, category, tx_data.events)
    ELSE IF category = SWAP_SWAP
    THEN ProcessSwapTransaction(taxbit_tx, tx_data.events)
    ELSE ProcessGenericTransaction(tx_data, taxbit_tx, category)

\* _process_transaction_fee, the assignments
AssignFee(taxbit_tx, converted) ==
    [taxbit_tx EXCEPT !.fee_currency = converted.currency, !.fee = converted.amount]

\* _process_transaction_fee: the fee is taken to be in ucint
ProcessTransactionFee(tx_data, taxbit_tx) ==
    IF tx_data.fee # <<>> /\ tx_data.fee # <<0>>
    THEN AssignFee(taxbit_tx, ConvertAmount(tx_data.fee, <<"u", "c", "i", "n", "t">>))
    ELSE taxbit_tx

\* to_dict of the converted transaction; None is written as the empty cell.
\* [raised, row]: raised when the classification or the processing of the
\* events raised
ToDict(tx_data, taxbit_tx, category, clock) ==
    [raised |-> taxbit_tx.raised,
     row |-> [c \in Range(TAXBIT_CSV_HEADERS) |->
                CASE c = "timestamp" -> RowTimestamp(tx_data.timestamp, clock)
                  [] c = "txid" -> tx_data.hash
                  [] c = "source_name" -> "Cintara"
                  [] c = "from_wallet_address" -> taxbit_tx.from_wallet_address
                  [] c = "to_wallet_address" -> taxbit_tx.to_wallet_address
                  [] c = "category" -> category
                  [] c = "in_currency" -> taxbit_tx.in_currency
                  [] c = "in_amount" -> taxbit_tx.in_amount
                  [] c = "out_currency" -> taxbit_tx.out_currency
                  [] c = "out_amount" -> taxbit_tx.out_amount
                  [] c = "fee_currency" -> taxbit_tx.fee_currency
                  [] c = "fee" -> taxbit_tx.fee
                  [] c = "memo" -> tx_data.memo
                  [] c = "status" -> IF tx_data.success THEN "Completed" ELSE "Failed"
                  [] OTHER -> ""]]

\* convert_transaction, once the transaction is classified
ConvertClassified(tx_data, category, clock) ==
    IF category = AttributeError
    THEN ToDict(tx_data, [TaxBitTransaction EXCEPT !.raised = TRUE], category, clock)
    ELSE ToDict(tx_data,
                ProcessTransactionFee(tx_data,
                    ProcessTransactionDetails(tx_data, TaxBitTransaction, category)),
                category, clock)

\* convert_transaction
ConvertTransaction(tx_data, clock) ==
    ConvertClassified(tx_data, ClassifyTransaction(tx_data), clock)

\* the conversion loop of export_address_transactions: a transaction whose
\* conversion raises is logged and left out
RECURSIVE ConvertAll(_, _)
ConvertAll(txs, clock) ==
    IF txs = <<>> THEN <<>>
    ELSE LET taxbit_tx == ConvertTransaction(Head(txs), clock)
         IN IF taxbit_tx.raised THEN ConvertAll(Tail(txs), clock)
            ELSE <<taxbit_tx.row>> \o ConvertAll(Tail(txs), clock)

\* a variant that writes the header only when there are rows
GenerateCsvHeaderWithRows(taxbit_transactions) ==
    IF taxbit_transactions = <<>> THEN <<>>
    ELSE <<TAXBIT_CSV_HEADERS>> \o
         [i \in DOMAIN taxbit_transactions |->
             [c \in DOMAIN TAXBIT_CSV_HEADERS |-> taxbit_transactions[i][TAXBIT_CSV_HEADERS[c]]]]

\* generate_csv: the header line, then one line per transaction with its
\* cells in header order
GenerateCsv(taxbit_transactions) ==
    <<TAXBIT_CSV_HEADERS>> \o
    [i \in DOMAIN taxbit_transactions |->
        [c \in DOMAIN TAXBIT_CSV_HEADERS |-> taxbit_transactions[i][TAXBIT_CSV_HEADERS[c]]]]

-----------------------------------------------------------------------------
(* convert_transaction applied to bounded inputs: specification SpecConvert  *)

\* most events of a transaction handed to convert_transaction
MaxConvertEvents == 2

\* the attributes of an event: a dict, or the list the node's RPC returns
Attributes(shape, sender, recipient, digits, denom) ==
    [shape |-> shape, recipient |-> recipient, sender |-> sender,
     delegator |-> sender, validator |-> recipient,
     amount |-> [digits |-> digits, denom |-> denom]]

\* events with an amount such as '1500000ucint', with an empty amount, with a
\* list of attributes, and the 'ethereum_tx' events of contract calls
ConvertEvents ==
    {[type |-> t,
      attributes |-> Attributes("dict", "0x-address", "validator", PrimaryAmount,
                                <<"u", "c", "i", "n", "t">>)] :
        t \in {"transfer", "delegate", "withdraw_rewards", "unbond"}} \cup
    {[type |-> "transfer",
      attributes |-> Attributes("dict", "contract-name", "0x-address", GasUsed,
                                <<"u", "s", "d", "c">>)],
     [type |-> "transfer",
      attributes |-> Attributes("dict", "0x-address", "validator", <<>>, <<>>)],
     [type |-> "transfer",
      attributes |-> Attributes("list", "", "", <<>>, <<>>)],
     [type |-> "ethereum_tx",
      attributes |-> Attributes("dict", "0x-address", "contract-name", PrimaryAmount, <<>>)]}

\* message types of the kinds the classifier tells apart, and one it does not know
ConvertTypes ==
    {TypeString("", n) : n \in {"MsgSend", "MsgEthereumTx", "MsgDelegate",
                                "MsgWithdrawDelegatorReward", "MsgVote", "unknown"}}

\* the transactions of the parsers of the service, and transactions as an
\* indexer describes them
InitConvert ==
    /\ IdlePipeline
    /\ \/ \E key \in 1..2 :
              arg = ProductionParseLeveldbTransaction(key, "0x-address", 1)
       \/ \E h \in HashValues, t \in TimestampValues \cup {NoBlock} :
              arg = ParseEvmTransactions(<<[hash |-> h, time |-> t]>>, "0x-address", 1)[1]
       \/ \E type \in ConvertTypes, amount \in {<<0>>, PrimaryAmount},
             fee \in {<<0>>, GasUsed}, success \in BOOLEAN,
             events \in SeqUpTo(ConvertEvents, MaxConvertEvents) :
              arg = [hash |-> 1, timestamp |-> 1, success |-> success, type |-> type,
                     from_address |-> "0x-address", to_address |-> "validator",
                     amount |-> amount, denom |-> <<"c", "i", "n", "t">>,
                     fee |-> fee, memo |-> "", events |-> events]
    /\ ret = <<>>
    /\ phase = "input"

CallConvert ==
    /\ phase = "input"
    /\ ret' = ConvertTransaction(arg, 1)
    /\ phase' = "returned"
    /\ UNCHANGED <<arg, pipelineVars>>

NextConvert == CallConvert

SpecConvert == InitConvert /\ [][NextConvert]_vars

\* both cells of a pair of columns are written
Populated(currency, amount) == currency # <<>> /\ amount # None

\* both cells of a pair of columns are empty
Empty(currency, amount) == currency = <<>> /\ amount = None

(* C12, as stated: for every exported row of a transaction with a non-zero   *)
(* amount, an Inbound category has in_currency/in_amount written and the     *)
(* out_* columns empty, an Outbound category has out_currency/out_amount     *)
(* written and the in_* columns empty, and Swap has both written; this       *)
(* includes the transactions of the LevelDB scan.                            *)
C12_ColumnsFollowCategory ==
    (phase = "returned" /\ ~ret.raised /\ arg.amount # <<0>>) =>
        LET row == ret.row
            in == [currency |-> row["in_currency"], amount |-> row["in_amount"]]
            out == [currency |-> row["out_currency"], amount |-> row["out_amount"]]
        IN /\ row["category"] \in InboundCategories =>
                  Populated(in.currency, in.amount) /\ Empty(out.currency, out.amount)
           /\ row["category"] \in OutboundCategories =>
                  Populated(out.currency, out.amount) /\ Empty(in.currency, in.amount)
           /\ row["category"] = SWAP_SWAP =>
                  Populated(in.currency, in.amount) /\ Populated(out.currency, out.amount)

(* C29: the row of every converted transaction carries the transaction's    *)
(* from_address as from_wallet_address and its to_address as                *)
(* to_wallet_address, whatever the category and whether or not the          *)
(* transaction has a 'transfer' event.                                      *)
C29_RowCarriesAddresses ==
    (phase = "returned" /\ ~ret.raised) =>
        /\ ret.row["from_wallet_address"] = arg.from_address
        /\ ret.row["to_wallet_address"] = arg.to_address

-----------------------------------------------------------------------------
(* The transactions of a Cosmos address: _parse_cosmos_transactions          *)

\* an event as the node's tx_search returns it: the attributes are a list of
\* key/value pairs, shown here by the values _process_event_attributes
\* decodes from it
NodeEvent(type, sender, recipient, action, digits, denom) ==
    [type |-> type,
     attributes |-> [shape |-> "list", sender |-> sender, recipient |-> recipient,
                     delegator |-> sender, validator |-> recipient,
                     source_validator |-> sender, destination_validator |-> recipient,
                     action |-> action,
                     amount |-> [digits |-> digits, denom |-> denom]]]

\* "if amount and amount != '0'"
NonZero(amount_str) ==
    Truthy(amount_str) /\ ~(amount_str.digits = <<0>> /\ amount_str.denom = <<>>)

\* tx_info with the amount and denomination of the attribute, when Wanted
WithAmount(tx_info, amount_str, Wanted) ==
    IF Wanted
    THEN [tx_info EXCEPT !.amount = ParseAmountWithDenom(amount_str).amount,
                         !.denom = ParseAmountWithDenom(amount_str).denom]
    ELSE tx_info

\* _extract_transaction_info, one event: the _process_..._event methods
ProcessEvent(event, tx_info, user_address) ==
    LET attr_dict == event.attributes
    IN CASE event.type = "transfer" ->
                [WithAmount(tx_info, attr_dict.amount, NonZero(attr_dict.amount))
                    EXCEPT !.from_address = attr_dict.sender,
                           !.to_address = attr_dict.recipient,
                           !.type = IF tx_info.type = TypeString("", "unknown")
                                    THEN TypeString("", "MsgSend") ELSE @]
         [] event.type = "message" ->
                [tx_info EXCEPT !.type = IF attr_dict.action # TypeString("", "")
                                         THEN attr_dict.action ELSE @,
                                !.from_address = IF attr_dict.sender # ""
                                                 THEN attr_dict.sender ELSE @]
         [] event.type = "withdraw_rewards" ->
                [WithAmount(tx_info, attr_dict.amount, Truthy(attr_dict.amount))
                    EXCEPT !.type = TypeString("", "MsgWithdrawDelegatorReward"),
                           !.to_address = user_address,
                           !.from_address = attr_dict.validator]
         [] event.type = "delegate" ->
                [WithAmount(tx_info, attr_dict.amount, Truthy(attr_dict.amount))
                    EXCEPT !.type = TypeString("", "MsgDelegate"),
                           !.from_address = user_address,
                           !.to_address = attr_dict.validator]
         [] event.type = "unbond" ->
                [WithAmount(tx_info, attr_dict.amount, Truthy(attr_dict.amount))
                    EXCEPT !.type = TypeString("", "MsgUndelegate"),
                           !.from_address = attr_dict.validator,
                           !.to_address = user_address]
         [] event.type = "redelegate" ->
                [WithAmount(tx_info, attr_dict.amount, Truthy(attr_dict.amount))
                    EXCEPT !.type = TypeString("", "MsgBeginRedelegate"),
                           !.from_address = attr_dict.source_validator,
                           !.to_address = attr_dict.destination_validator]
         [] OTHER -> tx_info

\* _extract_transaction_info, the loop over the events
RECURSIVE ProcessEvents(_, _, _)
ProcessEvents(events, tx_info, user_address) ==
    IF events = <<>> THEN tx_info
    ELSE ProcessEvents(Tail(events), ProcessEvent(Head(events), tx_info, user_address),
                       user_address)

\* _extract_transaction_info: a sequence of at most one tx_info, none when
\* the events said nothing about the transaction; the events are kept as the
\* node returned them
ExtractTransactionInfo(events, user_address) ==
    LET tx_info == ProcessEvents(events,
                       [type |-> TypeString("", "unknown"),
                        from_address |-> "", to_address |-> "",
                        amount |-> <<0>>, denom |-> <<"u", "c", "i", "n", "t">>,
                        fee |-> <<0>>, memo |-> "", events |-> events],
                       user_address)
    IN IF tx_info.type # TypeString("", "unknown") \/ tx_info.amount # <<0>>
       THEN <<tx_info>> ELSE <<>>

\* _parse_cosmos_transactions (tx_result.code is 0)
RECURSIVE ParseCosmosTransactions(_, _, _)
ParseCosmosTransactions(cosmos_txs, user_address, clock) ==
    IF cosmos_txs = <<>> THEN <<>>
    ELSE LET cosmos_tx == Head(cosmos_txs)
             tx_info == ExtractTransactionInfo(cosmos_tx.events, user_address)
             parsed == IF tx_info = <<>> THEN <<>>
                       ELSE <<[type |-> tx_info[1].type,
                               from_address |-> tx_info[1].from_address,
                               to_address |-> tx_info[1].to_address,
                               amount |-> tx_info[1].amount,
                               denom |-> tx_info[1].denom,
                               fee |-> tx_info[1].fee,
                               memo |-> tx_info[1].memo,
                               events |-> tx_info[1].events,
                               hash |-> cosmos_tx.hash,
                               timestamp |-> GetBlockTimestamp(cosmos_tx.time, clock),
                               success |-> TRUE]>>
         IN parsed \o ParseCosmosTransactions(Tail(cosmos_txs), user_address, clock)

\* the events of the transactions the node returns for a Cosmos address:
\* none, a vote, a bank transfer, a redelegation
CosmosEventLists ==
    {<<>>,
     <<NodeEvent("message", "cintara1-address", "",
                 TypeString("/cosmos.gov.v1beta1.", "MsgVote"), <<>>, <<>>)>>,
     <<NodeEvent("transfer", "cintara1-address", "cintara1-other", TypeString("", ""),
                 PrimaryAmount, <<"u", "c", "i", "n", "t">>)>>,
     <<NodeEvent("redelegate", "validator", "validator-2", TypeString("", ""),
                 PrimaryAmount, <<"u", "c", "i", "n", "t">>)>>}

\* address.startswith('0x'), for the addresses of the model
IsEvmAddress(a) == a = "0x-address"

-----------------------------------------------------------------------------
(* Two export requests for one address and date window: specification Spec   *)

\* most records in the tx_index store
MaxStore == 2

\* most transactions in the node's answer to the RPC strategies
MaxRpc == 2

\* last clock value at which the clock still advances during a scan
MaxClock == 3

\* the outcome of a call that ends in an exception nothing catches
Raised == [raised |-> TRUE]

\* the loop of get_leveldb_connection with the try/except around the open
\* call left out
RECURSIVE TryPathsUncaught(_, _)
TryPathsUncaught(db_paths, i) ==
    IF i > Len(db_paths) THEN None
    ELSE CASE db_paths[i] = "missing" -> TryPathsUncaught(db_paths, i + 1)
           [] db_paths[i] = "unreadable" -> TryPathsUncaught(db_paths, i + 1)
           [] db_paths[i] = "throws" -> Raised
           [] db_paths[i] = "opens" -> [path |-> i]

\* the loop of get_leveldb_connection from path i on: a path that does not
\* exist, is not readable, or whose open call throws is logged and skipped
RECURSIVE TryPaths(_, _)
TryPaths(db_paths, i) ==
    IF i > Len(db_paths) THEN None
    ELSE CASE db_paths[i] = "missing" -> TryPaths(db_paths, i + 1)
           [] db_paths[i] = "unreadable" -> TryPaths(db_paths, i + 1)
           [] db_paths[i] = "throws" -> TryPaths(db_paths, i + 1)
           [] db_paths[i] = "opens" -> [path |-> i]

\* get_leveldb_connection: the handle of the first configured path that
\* exists, is readable and opens; None without plyvel or without such a path
GetLeveldbConnection(st) ==
    IF ~st.plyvel_available THEN None
    ELSE TryPaths(st.paths, 1)

\* the record the iterator of the store yields at position i
Record(st, i) == [key |-> i, involves |-> i \in st.matching]

\* the four configured paths when none of them exists
NoPath == <<"missing", "missing", "missing", "missing">>

\* the four configured paths when the store is at the first of them
FirstPath == <<"opens", "missing", "missing", "missing">>

\* the tx_index store: it cannot be opened, or it holds records with distinct
\* keys, each involving the address or not
StoresOfSize(k) ==
    {[plyvel_available |-> TRUE, paths |-> FirstPath, size |-> k, matching |-> m] :
        m \in SUBSET (1..k)}

Stores ==
    {[plyvel_available |-> TRUE, paths |-> NoPath, size |-> 0, matching |-> {}]} \cup
    UNION {StoresOfSize(k) : k \in 0..MaxStore}

\* the status of a request that raised instead of returning a response
NoResponse == -1

\* the node's answers: it is unreachable, it answers the status request with
\* an error, or the strategies find a list of transactions, each with a hash
\* and a block time
RpcAnswers ==
    {[asked |-> TRUE, status |-> NoResponse, txs |-> <<>>],
     [asked |-> TRUE, status |-> 503, txs |-> <<>>]} \cup
    {[asked |-> TRUE, status |-> 200, txs |-> txs] :
        txs \in SeqUpTo([hash : HashValues, time : TimestampValues \cup {NoBlock}], MaxRpc)}

\* the node's answers to the queries for a Cosmos address
CosmosAnswers ==
    {[asked |-> TRUE, status |-> NoResponse, txs |-> <<>>],
     [asked |-> TRUE, status |-> 503, txs |-> <<>>]} \cup
    {[asked |-> TRUE, status |-> 200, txs |-> txs] :
        txs \in SeqUpTo([hash : HashValues \ {0}, time : Instants,
                         events : CosmosEventLists], MaxRpc)}

Init ==
    /\ pc = "idle"
    /\ req = 1
    /\ now = 1
    /\ address = "0x-address"
    /\ start_date \in DateValues
    /\ end_date \in DateValues
    /\ store \in Stores
    /\ rpc = NotAsked
    /\ scanned = 0
    /\ transactions = <<>>
    /\ csv = <<>>
    /\ arg = <<>> /\ ret = <<>> /\ phase = "unused"

\* export_address_transactions down to _fetch_transactions_from_leveldb: open
\* the store and sample it; a store that cannot be opened or is empty yields no
\* transactions, and fetch_transactions_by_address falls back to RPC; an
\* exception of get_leveldb_connection would reach the endpoint, which answers 500
StartExport ==
    /\ pc = "idle"
    /\ pc' = IF GetLeveldbConnection(store) = Raised THEN "failed"
             ELSE IF GetLeveldbConnection(store) # None /\ store.size # 0 THEN "scan"
             ELSE "rpc"
    /\ scanned' = 0
    /\ transactions' = <<>>
    /\ UNCHANGED <<req, now, address, start_date, end_date, store, rpc, csv, callVars>>

\* one iteration of the scan loop of _fetch_transactions_from_leveldb, and the
\* return of the scan when the loop ends with it: a non-empty result is what
\* fetch_transactions_by_address returns, an empty one sends it to RPC
ScanRecord ==
    /\ pc = "scan"
    /\ scanned < store.size
    /\ LET record == Record(store, scanned + 1)
           tx == ProductionParseLeveldbTransaction(record.key, address, now)
           found == IF record.involves /\ TransactionInDateRange(tx, start_date, end_date)
                    THEN Append(transactions, tx)
                    ELSE transactions
           last == \/ LimitReached(found, scanned + 1)
                   \/ scanned + 1 = store.size
       IN /\ scanned' = scanned + 1
          /\ transactions' = found
          /\ pc' = IF ~last THEN "scan" ELSE IF found # <<>> THEN "convert" ELSE "rpc"
    /\ \E clock \in {now, now + 1} :
          /\ clock = now \/ now < MaxClock
          /\ now' = clock
    /\ UNCHANGED <<req, address, start_date, end_date, store, rpc, csv, callVars>>

\* the RPC fallback without the try/except around it
FetchViaRpcUncaught(answer, addr, clock, start, end) ==
    IF answer.status = NoResponse THEN [raised |-> TRUE, txs |-> <<>>]
    ELSE IF answer.status # 200 THEN [raised |-> FALSE, txs |-> <<>>]
    ELSE [raised |-> FALSE,
          txs |-> DeduplicateAndFilterTransactions(
                      IF IsEvmAddress(addr)
                      THEN ParseEvmTransactions(answer.txs, addr, clock)
                      ELSE ParseCosmosTransactions(answer.txs, addr, clock),
                      start, end)]

\* the RPC fallback of fetch_transactions_by_address: the node status check,
\* the strategies and the merge of what they return; an exception and a
\* status other than 200 give the empty list
FetchViaRpc(answer, addr, clock, start, end) ==
    IF answer.status = NoResponse THEN [raised |-> FALSE, txs |-> <<>>]
    ELSE IF answer.status # 200 THEN [raised |-> FALSE, txs |-> <<>>]
    ELSE [raised |-> FALSE,
          txs |-> DeduplicateAndFilterTransactions(
                      IF IsEvmAddress(addr)
                      THEN ParseEvmTransactions(answer.txs, addr, clock)
                      ELSE ParseCosmosTransactions(answer.txs, addr, clock),
                      start, end)]

\* fetch_transactions_by_address after the store gave nothing: ask the node
RpcFallback ==
    /\ pc = "rpc"
    /\ \E answer \in (IF rpc.asked THEN {rpc}
                      ELSE IF IsEvmAddress(address) THEN RpcAnswers ELSE CosmosAnswers) :
          /\ rpc' = answer
          /\ transactions' = FetchViaRpc(answer, address, now, start_date, end_date).txs
          /\ pc' = IF FetchViaRpc(answer, address, now, start_date, end_date).raised
                   THEN "failed" ELSE "convert"
    /\ UNCHANGED <<req, now, address, start_date, end_date, store, scanned, csv, callVars>>

\* the rest of export_address_transactions: convert what was found and
\* generate the CSV
Convert ==
    /\ pc = "convert"
    /\ csv' = Append(csv, IF transactions = <<>> THEN GenerateCsv(<<>>)
                          ELSE GenerateCsv(ConvertAll(transactions, now)))
    /\ pc' = "done"
    /\ UNCHANGED <<req, now, address, start_date, end_date, store, rpc, scanned,
                   transactions, callVars>>

\* the second request: same address and window, later on the clock, against
\* the same store and the same answers of the node
NextRequest ==
    /\ pc = "done"
    /\ req = 1
    /\ req' = 2
    /\ now' = now + 1
    /\ pc' = "idle"
    /\ UNCHANGED <<address, start_date, end_date, store, rpc, scanned, transactions,
                   csv, callVars>>

Next == StartExport \/ ScanRecord \/ RpcFallback \/ Convert \/ NextRequest

Spec == Init /\ [][Next]_vars

\* the transactions of a returned result have pairwise distinct hashes
DistinctHashes(txs) == \A i, j \in DOMAIN txs : i # j => txs[i].hash # txs[j].hash

\* the txid cells of the rows of a CSV
Txids(lines) == [i \in 1..(Len(lines) - 1) |-> lines[i + 1][2]]

(* C1: in every result of fetch_transactions_by_address, and in the rows of  *)
(* the CSV made from it, no two transactions share a hash (txid), whether    *)
(* the LevelDB scan or the RPC merge produced the result.                    *)
C1_HashUnique ==
    /\ (pc \in {"convert", "done"} => DistinctHashes(transactions))
    /\ (pc = "done" =>
          \A i, j \in DOMAIN Txids(csv[req]) :
              i # j => Txids(csv[req])[i] # Txids(csv[req])[j])

\* the node's answer held the same hash twice, and the CSV has one row for it
C1_Witness ==
    /\ pc = "done"
    /\ rpc.asked /\ rpc.status = 200 /\ Len(rpc.txs) = 2
    /\ rpc.txs[1].hash = rpc.txs[2].hash /\ rpc.txs[1].hash # 0
    /\ Len(transactions) = 1
    /\ Txids(csv[req]) = <<rpc.txs[1].hash>>

\* t is an instant inside the supplied bounds, both inclusive
WithinBounds(t, sd, ed) ==
    /\ t \notin {0, Unparsable, Incomparable}
    /\ (sd = NoDate \/ sd <= t)
    /\ (ed = NoDate \/ t <= ed)

(* C3, as stated: whenever start_date and/or end_date is supplied, every     *)
(* transaction returned for the export, on the LevelDB scan path as well as  *)
(* on the RPC path, has start_date <= timestamp <= end_date.                 *)
C3_DateWindowOnEveryPath ==
    (pc \in {"convert", "done"} /\ (start_date # NoDate \/ end_date # NoDate)) =>
        \A i \in DOMAIN transactions :
            WithinBounds(transactions[i].timestamp, start_date, end_date)

(* C5: when discovery finds zero transactions, the export returns exactly    *)
(* one line, the 20 column names timestamp, txid, source_name, ..., memo,    *)
(* status.                                                                   *)
C5_HeaderOnly ==
    (pc = "done" /\ transactions = <<>>) =>
        /\ Len(csv[req]) = 1
        /\ Len(csv[req][1]) = 20
        /\ SubSeq(csv[req][1], 1, 3) = <<"timestamp", "txid", "source_name">>
        /\ SubSeq(csv[req][1], 19, 20) = <<"memo", "status">>
        /\ \A i, j \in 1..20 : i # j => csv[req][1][i] # csv[req][1][j]

\* the store was scanned, the node was asked, and neither had a transaction
C5_Witness ==
    /\ pc = "done"
    /\ transactions = <<>>
    /\ GetLeveldbConnection(store) # None /\ store.size > 0
    /\ rpc.asked /\ rpc.status = 200
    /\ csv[req] = <<TAXBIT_CSV_HEADERS>>

(* C6, as stated: two exports for the same address and date window, made at  *)
(* different wall-clock times against an unchanged store and unchanged       *)
(* answers of the node, return identical CSV text.                           *)
C6_Idempotent ==
    (pc = "done" /\ req = 2) => csv[1] = csv[2]

-----------------------------------------------------------------------------
(* Export requests for a Cosmos address: specification SpecCosmos            *)

\* the stores in which no record involves the address
StoresWithoutMatch == {st \in Stores : st.matching = {}}

\* a bech32 address is no hex string, so no record of the store matches it
InitCosmos ==
    /\ pc = "idle"
    /\ req = 1
    /\ now = 1
    /\ address = "cintara1-address"
    /\ start_date \in DateValues
    /\ end_date \in DateValues
    /\ store \in StoresWithoutMatch
    /\ rpc = NotAsked
    /\ scanned = 0
    /\ transactions = <<>>
    /\ csv = <<>>
    /\ arg = <<>> /\ ret = <<>> /\ phase = "unused"

SpecCosmos == InitCosmos /\ [][Next]_vars

(* C13, as stated: the CSV of export_address_transactions is the header      *)
(* line followed by exactly one row per transaction of the discovered        *)
(* sequence, in the same order: the number of data rows equals the number of *)
(* transactions discovery returned.                                          *)
C13_OneRowPerTransaction ==
    pc = "done" =>
        /\ csv[req][1] = TAXBIT_CSV_HEADERS
        /\ Len(csv[req]) = 1 + Len(transactions)
        /\ Txids(csv[req]) = [i \in DOMAIN transactions |-> transactions[i].hash]

-----------------------------------------------------------------------------
(* Export requests against a store larger than the limits: specification     *)
(* SpecScan                                                                  *)

\* most records of a store beyond a limit of the scan
MaxBeyond == 1

\* a store at the first path with the given size and matching records
StoreWith(size, matching) ==
    [plyvel_available |-> TRUE, paths |-> FirstPath, size |-> size,
     matching |-> matching \cap (1..size)]

\* stores as large as the scan limit and larger: no record matches; the
\* last record inside the limit matches; the first beyond it does; the last
\* ResultLimit records inside the limit match
StoresAtScanLimit ==
    {StoreWith(ScanLimit + b, m) :
        b \in 0..MaxBeyond,
        m \in {{}, {ScanLimit}, {ScanLimit + 1}, (ScanLimit - ResultLimit + 1)..ScanLimit}}

\* stores with as many matching records as the result limit and more: every
\* record matches, or every record but the first
StoresAtResultLimit ==
    {StoreWith(ResultLimit + b, (1 + first)..(ResultLimit + b)) :
        b \in 0..MaxBeyond, first \in 0..1}

\* the node is unreachable, or it knows no transaction of the address
NodeDown ==
    {[asked |-> TRUE, status |-> NoResponse, txs |-> <<>>],
     [asked |-> TRUE, status |-> 503, txs |-> <<>>],
     [asked |-> TRUE, status |-> 200, txs |-> <<>>]}

InitScan ==
    /\ pc = "idle"
    /\ req = 1
    /\ now = MaxClock
    /\ address = "0x-address"
    /\ start_date = NoDate
    /\ end_date = NoDate
    /\ store \in StoresAtScanLimit \cup StoresAtResultLimit
    /\ rpc \in NodeDown
    /\ scanned = 0
    /\ transactions = <<>>
    /\ csv = <<>>
    /\ arg = <<>> /\ ret = <<>> /\ phase = "unused"

SpecScan == InitScan /\ [][Next]_vars

(* C14: whatever the size of the store, the scan ends: it examines at most   *)
(* 15000 records and produces at most 50 matches, and it examines a record   *)
(* only while neither limit has been reached.                                *)
C14_ScanStopsAtLimits ==
    /\ scanned <= ScanLimit
    /\ Len(transactions) <= ResultLimit
    /\ pc = "scan" => (scanned < ScanLimit /\ Len(transactions) < ResultLimit)

\* the scan stopped at the scan limit, before a record that matches
C14_Witness ==
    /\ pc = "rpc"
    /\ scanned = ScanLimit
    /\ store.size > ScanLimit
    /\ (ScanLimit + 1) \in store.matching
    /\ transactions = <<>>

-----------------------------------------------------------------------------
(* Export requests when the store may fail to open: specification SpecOpen   *)

\* the ways the configured paths fail and work: no path exists; none is
\* readable; every open call throws; one of each; the second opens after
\* the first threw
PathLists ==
    {NoPath,
     <<"unreadable", "unreadable", "unreadable", "unreadable">>,
     <<"throws", "throws", "throws", "throws">>,
     <<"missing", "unreadable", "throws", "missing">>,
     <<"throws", "opens", "missing", "missing">>}

\* stores behind these paths, with and without plyvel: one record, matching
\* or not, where the content cannot be read, every content where it can
StoresToOpen ==
    {st \in {[c EXCEPT !.plyvel_available = p, !.paths = paths] :
                c \in UNION {StoresOfSize(k) : k \in 1..MaxStore},
                p \in BOOLEAN, paths \in PathLists} :
        GetLeveldbConnection(st) = None => st.size = 1}

InitOpen ==
    /\ pc = "idle"
    /\ req = 1
    /\ now = 1
    /\ address = "0x-address"
    /\ start_date = NoDate
    /\ end_date = NoDate
    /\ store \in StoresToOpen
    /\ rpc = NotAsked
    /\ scanned = 0
    /\ transactions = <<>>
    /\ csv = <<>>
    /\ arg = <<>> /\ ret = <<>> /\ phase = "unused"

SpecOpen == InitOpen /\ [][Next]_vars

\* plyvel is there and the open call succeeds for a path that exists and is readable
CanOpen(st) == st.plyvel_available /\ \E i \in DOMAIN st.paths : st.paths[i] = "opens"

(* C15: if the store cannot be opened (plyvel unavailable, every configured  *)
(* path missing or unreadable, or the open call throws), the scan returns an *)
(* empty sequence and raises no error: no record is examined and the         *)
(* request goes on to the RPC strategies with no transaction.                *)
C15_UnopenableStoreYieldsEmpty ==
    ~CanOpen(store) =>
        /\ pc \notin {"failed", "scan"}
        /\ scanned = 0
        /\ pc = "rpc" => transactions = <<>>

\* the open call threw for a path, no path opened, and the scan returned
\* nothing although a record of the store matches
C15_Witness ==
    /\ pc = "rpc"
    /\ store.plyvel_available
    /\ \E i \in DOMAIN store.paths : store.paths[i] = "throws"
    /\ ~CanOpen(store)
    /\ store.matching # {}
    /\ transactions = <<>>

(* C16: when the store is unreachable, export_address_transactions raises no *)
(* error: it returns the CSV of what the RPC strategies supply, and exactly  *)
(* the header-only CSV when they yield nothing, fail, or the node is         *)
(* unreachable.                                                              *)
C16_UnreachableStoreDegradesToRpc ==
    ~CanOpen(store) =>
        /\ pc # "failed"
        /\ pc = "done" =>
              /\ Len(csv) = req
              /\ csv[req] = GenerateCsv(ConvertAll(
                     FetchViaRpc(rpc, address, now, start_date, end_date).txs, now))
              /\ (rpc.status # 200 \/ rpc.txs = <<>>) => csv[req] = <<TAXBIT_CSV_HEADERS>>

\* the store did not open and the node did not answer: the header alone came back
C16_Witness ==
    /\ pc = "done"
    /\ ~CanOpen(store)
    /\ rpc.status = NoResponse
    /\ csv[req] = <<TAXBIT_CSV_HEADERS>>

(* C17: every list fetch_transactions_by_address produces is the output of   *)
(* _deduplicate_and_filter_transactions applied to what the strategies       *)
(* found: no strategy's results, the LevelDB scan's in particular, reach     *)
(* conversion without having been deduplicated, filtered and ordered by it.  *)
C17_EveryResultMerged ==
    pc \in {"convert", "done"} =>
        transactions = DeduplicateAndFilterTransactions(transactions, start_date, end_date)

\* the scan has returned and its list is still the request's list
ScanReturned ==
    /\ scanned > 0
    /\ \/ pc = "rpc"
       \/ pc = "convert" /\ transactions # <<>> /\ transactions[1].memo = "LevelDB extraction"

\* the i-th smallest element of a set of numbers
Nth(S, i) == CHOOSE k \in S : Cardinality({j \in S : j <= k}) = i

\* what a scan that examines every record of a store returns: the matching
\* records in iteration order, parsed
ExhaustiveScan(st, user_address, clock) ==
    [i \in 1..Cardinality(st.matching) |->
        ProductionParseLeveldbTransaction(Record(st, Nth(st.matching, i)).key,
                                          user_address, clock)]

\* the store that holds the first n records of st and no other
Prefix(st, n) == [st EXCEPT !.size = n, !.matching = st.matching \cap 1..n]

(* C18: when a scan stops because of the scan cap or the match cap, with     *)
(* records of the store left unexamined, its result is distinguishable from  *)
(* the result of an exhaustive scan: it differs from what the scan of the    *)
(* store made of the examined records alone, which is exhaustive, returns.   *)
C18_TruncationIndicated ==
    (ScanReturned /\ scanned < store.size) =>
        transactions # ExhaustiveScan(Prefix(store, scanned), address, now)

-----------------------------------------------------------------------------
(* Two export requests at once, in two worker processes of the service,     *)
(* next to the node that writes the store: specification SpecConcurrent.    *)
(* arg.writer says whether the node is running; ret[r] is the position, the *)
(* handle, the scan counter, the list and the CSV of request r.             *)

Requests == {1, 2}

\* the store as a process finds it while another process has it open:
\* plyvel.DB opens a LevelDB database for reading and writing and takes its
\* LOCK file, so the open call raises for a path that would otherwise open
Locked(st) ==
    [st EXCEPT !.paths = [i \in DOMAIN st.paths |->
                             IF st.paths[i] = "opens" THEN "throws" ELSE st.paths[i]]]

\* the store as a request finds it when it opens it
Contended(st, held) == IF held THEN Locked(st) ELSE st

\* the node or a request has the store open
Held == arg.writer \/ \E r \in Requests : ret[r].handle # None

\* the node's answers with at most one transaction
ShortAnswers ==
    {[asked |-> TRUE, status |-> NoResponse, txs |-> <<>>],
     [asked |-> TRUE, status |-> 503, txs |-> <<>>],
     [asked |-> TRUE, status |-> 200, txs |-> <<>>]} \cup
    {[asked |-> TRUE, status |-> 200, txs |-> <<[hash |-> h, time |-> t]>>] :
        h \in HashValues, t \in TimestampValues \cup {NoBlock}}

InitConcurrent ==
    /\ pc = "unused"
    /\ req = 0
    /\ now = 1
    /\ address = "0x-address"
    /\ start_date = NoDate
    /\ end_date = NoDate
    /\ store \in UNION {StoresOfSize(k) : k \in 1..MaxStore}
    /\ rpc \in ShortAnswers
    /\ scanned = 0
    /\ transactions = <<>>
    /\ csv = <<>>
    /\ arg \in [writer : BOOLEAN]
    /\ ret = [r \in Requests |-> [pc |-> "idle", handle |-> None, scanned |-> 0,
                                  transactions |-> <<>>, csv |-> <<>>]]
    /\ phase = "unused"

\* get_leveldb_connection in _fetch_transactions_from_leveldb, and the
\* diagnostics pass: without a handle the scan returns [] at once
OpenStore(r) ==
    /\ ret[r].pc = "idle"
    /\ ret' = [ret EXCEPT
                  ![r].handle = IF GetLeveldbConnection(Contended(store, Held)) = Raised
                                THEN None
                                ELSE GetLeveldbConnection(Contended(store, Held)),
                  ![r].pc = IF GetLeveldbConnection(Contended(store, Held)) = Raised
                            THEN "failed"
                            ELSE IF GetLeveldbConnection(Contended(store, Held)) = None
                            THEN "rpc"
                            ELSE IF store.size = 0 THEN "close" ELSE "scan"]
    /\ UNCHANGED <<pipelineVars, arg, phase>>

\* one iteration of the scan loop, for request r
ScanStep(r) ==
    /\ ret[r].pc = "scan"
    /\ ret[r].scanned < store.size
    /\ LET record == Record(store, ret[r].scanned + 1)
           tx == ProductionParseLeveldbTransaction(record.key, address, now)
           found == IF record.involves /\ TransactionInDateRange(tx, start_date, end_date)
                    THEN Append(ret[r].transactions, tx)
                    ELSE ret[r].transactions
           last == \/ LimitReached(found, ret[r].scanned + 1)
                   \/ ret[r].scanned + 1 = store.size
       IN ret' = [ret EXCEPT ![r].scanned = ret[r].scanned + 1,
                             ![r].transactions = found,
                             ![r].pc = IF last THEN "close" ELSE "scan"]
    /\ UNCHANGED <<pipelineVars, arg, phase>>

\* the finally clause of _fetch_transactions_from_leveldb, and what
\* fetch_transactions_by_address does with the list the scan returned
CloseStore(r) ==
    /\ ret[r].pc = "close"
    /\ ret' = [ret EXCEPT ![r].handle = None,
                          ![r].pc = IF ret[r].transactions # <<>> THEN "convert" ELSE "rpc"]
    /\ UNCHANGED <<pipelineVars, arg, phase>>

\* the RPC fallback of fetch_transactions_by_address, for request r
RpcStep(r) ==
    /\ ret[r].pc = "rpc"
    /\ ret' = [ret EXCEPT
                  ![r].transactions = FetchViaRpc(rpc, address, now, start_date, end_date).txs,
                  ![r].pc = IF FetchViaRpc(rpc, address, now, start_date, end_date).raised
                            THEN "failed" ELSE "convert"]
    /\ UNCHANGED <<pipelineVars, arg, phase>>

\* the rest of export_address_transactions, for request r
ConvertStep(r) ==
    /\ ret[r].pc = "convert"
    /\ ret' = [ret EXCEPT ![r].csv = GenerateCsv(ConvertAll(ret[r].transactions, now)),
                          ![r].pc = "done"]
    /\ UNCHANGED <<pipelineVars, arg, phase>>

NextConcurrent ==
    \E r \in Requests :
        OpenStore(r) \/ ScanStep(r) \/ CloseStore(r) \/ RpcStep(r) \/ ConvertStep(r)

SpecConcurrent == InitConcurrent /\ [][NextConcurrent]_vars

\* what a request returns when nobody else has the store open: the scan's
\* transactions if there are any, else the RPC strategies'
AloneCsv ==
    GenerateCsv(ConvertAll(
        IF GetLeveldbConnection(store) # None /\ store.matching # {}
        THEN ExhaustiveScan(store, address, now)
        ELSE FetchViaRpc(rpc, address, now, start_date, end_date).txs,
        now))

(* C19: two export requests that run at the same time against the same      *)
(* store each get a handle of their own and each return what they would     *)
(* return alone: neither fails nor loses results because the other request  *)
(* or the node's writer has the store open.                                 *)
C19_ConcurrentRequestsIndependent ==
    \A r \in Requests :
        /\ ret[r].pc # "failed"
        /\ ret[r].pc \in {"scan", "close"} => ret[r].handle # None
        /\ ret[r].pc = "done" => ret[r].csv = AloneCsv

-----------------------------------------------------------------------------
(* The matchers of the scan applied to bounded inputs: specification         *)
(* SpecMatch. A value is a sequence of bytes, a byte a pair of hex digits;   *)
(* an address is a sequence of characters.                                   *)

\* most padding bytes before and after the interesting part of a value
MaxPad == 2

HexDigits ==
    {"0", "1", "2", "3", "4", "5", "6", "7", "8", "9", "a", "b", "c", "d", "e", "f"}

\* the length of a normalized address for which the raw bytes are searched
AddressHexLength == 40

\* the length of the address prefix searched after a protobuf tag
TagPrefixLength == 8

\* the length of the address prefix searched on its own
PartialLength == 16

\* needle in hay, for strings and for bytes
Contains(hay, needle) ==
    \E i \in 0..(Len(hay) - Len(needle)) : SubSeq(hay, i + 1, i + Len(needle)) = needle

\* s.replace('0x', '')
RECURSIVE Replace0x(_)
Replace0x(s) ==
    IF Len(s) < 2 THEN s
    ELSE IF SubSeq(s, 1, 2) = <<"0", "x">> THEN Replace0x(SubSeq(s, 3, Len(s)))
    ELSE <<Head(s)>> \o Replace0x(Tail(s))

\* target_address.lower().replace('0x', '')
TargetClean(target_address) == Replace0x(Lower(target_address))

\* tx_data.hex()
RECURSIVE Hex(_)
Hex(tx_data) == IF tx_data = <<>> THEN <<>> ELSE Head(tx_data) \o Hex(Tail(tx_data))

\* bytes.fromhex(h) raises ValueError
FromHexRaises(h) == Len(h) % 2 = 1 \/ \E i \in DOMAIN h : h[i] \notin HexDigits

\* bytes.fromhex(h)
FromHex(h) == [i \in 1..(Len(h) \div 2) |-> <<h[2 * i - 1], h[2 * i]>>]

\* s[::-1]
Reverse(s) == [i \in 1..Len(s) |-> s[Len(s) + 1 - i]]

\* _production_transaction_involves_address: the list of search results is
\* built in full, so an exception of bytes.fromhex makes the answer False
ProductionTransactionInvolvesAddress(tx_data, target_address) ==
    LET target_clean == TargetClean(target_address)
        tx_hex == Lower(Hex(tx_data))
    IN IF Len(target_clean) = AddressHexLength /\ FromHexRaises(target_clean) THEN FALSE
       ELSE \/ Contains(tx_hex, target_clean)
            \/ /\ Len(target_clean) = AddressHexLength
               /\ Contains(tx_data, FromHex(target_clean))
            \/ Contains(tx_hex, <<"0", "8">> \o Slice(target_clean, TagPrefixLength))
            \/ Contains(tx_hex, <<"1", "2">> \o Slice(target_clean, TagPrefixLength))
            \/ Contains(tx_hex, Reverse(target_clean))
            \/ Contains(tx_hex, Slice(target_clean, PartialLength))
            \/ Contains(tx_hex, <<"3", "0", "7", "8", "0", "0">> \o target_clean)

\* EnhancedLevelDBExtractor._transaction_involves_address
TransactionInvolvesAddress(tx_data, target_address) ==
    LET target_clean == TargetClean(target_address)
        tx_hex == Lower(Hex(tx_data))
    IN \/ Contains(tx_hex, target_clean)
       \/ /\ ~FromHexRaises(target_clean)
          /\ Contains(tx_data, FromHex(target_clean))

\* the hex digits of an address, and of another one
TargetHex ==
    <<"7", "4", "2", "d", "3", "5", "c", "c", "6", "6", "3", "4", "c", "0", "5", "3",
      "2", "9", "2", "5", "a", "3", "b", "8", "4", "4", "b", "c", "4", "5", "4", "e",
      "4", "4", "3", "8", "f", "4", "4", "e">>

OtherHex ==
    <<"5", "a", "a", "e", "b", "6", "0", "5", "3", "f", "3", "e", "9", "4", "c", "9",
      "b", "9", "a", "0", "9", "f", "3", "3", "6", "6", "9", "4", "3", "5", "e", "7",
      "e", "f", "1", "b", "e", "a", "e", "d">>

\* the address as requests give it: checksummed with the prefix, bare, and
\* mistyped in its last character
TargetAddresses ==
    {<<"0", "x">> \o Upper(TargetHex),
     TargetHex,
     SubSeq(TargetHex, 1, 39) \o <<"g">>}

\* what a value holds of an address t: all of it, its first 16 digits, its
\* first 8 digits after a tag byte, its digits in reverse, its ASCII "0x" and
\* its digits, all but its last byte, all but its first byte, another
\* address, nothing
Pieces(t) ==
    {t,
     Slice(t, PartialLength),
     <<"0", "8">> \o Slice(t, TagPrefixLength),
     <<"1", "2">> \o Slice(t, TagPrefixLength),
     Reverse(t),
     <<"3", "0", "7", "8", "0", "0">> \o t,
     SubSeq(t, 1, Len(t) - 2),
     SubSeq(t, 3, Len(t)),
     OtherHex,
     <<>>}

\* k padding bytes
Pad(k) == [i \in 1..(2 * k) |-> "e"]

InitMatch ==
    /\ IdlePipeline
    /\ \E a \in TargetAddresses, before \in 0..MaxPad, after \in 0..MaxPad,
          shift \in BOOLEAN :
          \E piece \in Pieces(TargetHex) :
              arg = [tx_data |-> FromHex(Pad(before)
                                         \o (IF shift THEN <<"9">> ELSE <<>>)
                                         \o piece
                                         \o (IF shift THEN <<"9">> ELSE <<>>)
                                         \o Pad(after)),
                     target_address |-> a]
    /\ ret = <<>>
    /\ phase = "input"

CallProductionMatcher ==
    /\ phase = "input"
    /\ ret' = [matcher |-> "production",
               result |-> ProductionTransactionInvolvesAddress(arg.tx_data,
                                                               arg.target_address)]
    /\ phase' = "returned"
    /\ UNCHANGED <<arg, pipelineVars>>

CallEnhancedMatcher ==
    /\ phase = "input"
    /\ ret' = [matcher |-> "enhanced",
               result |-> TransactionInvolvesAddress(arg.tx_data, arg.target_address)]
    /\ phase' = "returned"
    /\ UNCHANGED <<arg, pipelineVars>>

NextMatch == CallProductionMatcher \/ CallEnhancedMatcher

SpecMatch == InitMatch /\ [][NextMatch]_vars

\* the normalized address occurs in full in the value: in its hex encoding,
\* or as decoded bytes in the raw value
OccursInFull(tx_data, target_address) ==
    \/ Contains(Hex(tx_data), TargetClean(target_address))
    \/ /\ ~FromHexRaises(TargetClean(target_address))
       /\ Contains(tx_data, FromHex(TargetClean(target_address)))

(* C20: the matcher answers true exactly when the normalized target address  *)
(* (lowercase hex, 0x removed) occurs in full in the value, as a substring   *)
(* of its hex encoding or as decoded bytes in the raw value; a value that    *)
(* holds only a part or another transformation of the address does not match.*)
C20_MatchIffFullAddress ==
    phase = "returned" =>
        (ret.result <=> OccursInFull(arg.tx_data, arg.target_address))

-----------------------------------------------------------------------------
(* The extractors and the parser of the scan applied to bounded values:      *)
(* specification SpecExtract. An address is "0x" and 40 hex digits, an       *)
(* amount the 8 bytes of its big-endian encoding.                            *)

\* most zero bytes after the last part of a value
MaxTail == 1

\* bytes of a window of the amount extractor
WindowBytes == 8

\* the amount extractor stops once it holds this many amounts
AmountLimit == 10

\* hex patterns that disqualify an address
ExcludedPatterns ==
    {<<"6", "5", "7", "6", "6", "d">>, <<"6", "5", "7", "4", "6", "8">>,
     <<"6", "d", "7", "3", "6", "7">>, <<"0", "0", "0", "0", "0", "0">>,
     <<"f", "f", "f", "f", "f", "f">>}

\* re.findall(r'[0-9a-fA-F]{40}', tx_hex) on a string of hex digits: the
\* matches do not overlap, so they are the consecutive blocks of 40 digits
PotentialAddresses(tx_hex) ==
    [k \in 1..(Len(tx_hex) \div AddressHexLength) |->
        SubSeq(tx_hex, AddressHexLength * (k - 1) + 1, AddressHexLength * k)]

\* the filter of _extract_real_evm_addresses
ValidAddress(addr) ==
    /\ \E i \in DOMAIN addr : addr[i] # "0"
    /\ \E i \in DOMAIN addr : Lower(addr)[i] # "f"
    /\ \A pattern \in ExcludedPatterns : ~Contains(Lower(addr), pattern)
    /\ Cardinality({Lower(addr)[i] : i \in DOMAIN addr}) > 3

\* "remove duplicates while preserving order"
RECURSIVE UniqueAddresses(_, _)
UniqueAddresses(addrs, seen) ==
    IF addrs = <<>> THEN <<>>
    ELSE IF Lower(Head(addrs)) \in seen THEN UniqueAddresses(Tail(addrs), seen)
    ELSE <<Head(addrs)>> \o UniqueAddresses(Tail(addrs), seen \cup {Lower(Head(addrs))})

\* addr.lower() in [v.lower() for v in user_variations]
IsUserAddress(addr, user_address) ==
    \/ Lower(addr) = <<"0", "x">> \o TargetClean(user_address)
    \/ Lower(addr) = Lower(user_address)

\* the end of _extract_real_evm_addresses: the user's address if it was
\* found, and the first other one
ChooseAddresses(unique_addresses, user_address) ==
    LET matching == SelectSeq(unique_addresses, LAMBDA a : IsUserAddress(a, user_address))
        others == SelectSeq(unique_addresses, LAMBDA a : ~IsUserAddress(a, user_address))
    IN IF matching # <<>> /\ others # <<>> THEN <<matching[Len(matching)], others[1]>>
       ELSE IF matching # <<>> THEN <<matching[Len(matching)], <<>>>>
       ELSE IF Len(others) >= 2 THEN <<others[1], others[2]>>
       ELSE IF Len(others) = 1 THEN <<others[1], <<>>>>
       ELSE <<<<>>, <<>>>>

\* the valid addresses among the potential ones, each with "0x" before it
ValidAddresses(tx_hex) ==
    LET valid == SelectSeq(PotentialAddresses(tx_hex), ValidAddress)
    IN [i \in DOMAIN valid |-> <<"0", "x">> \o valid[i]]

\* _extract_real_evm_addresses: (from_addr, to_addr)
ExtractRealEvmAddresses(tx_data, user_address) ==
    ChooseAddresses(UniqueAddresses(ValidAddresses(Hex(tx_data)), {}), user_address)

\* the integer 0 in the representation of the amounts
ZeroAmount == [i \in 1..WindowBytes |-> <<"0", "0">>]

\* 1 <= amount <= 1000000 * 10**18: the upper bound exceeds every uint64
Plausible(amount) == amount # ZeroAmount

\* range(0, len(data) - 8, 1) is exhausted at i
NoMoreWindows(data, i) == i >= Len(data) - WindowBytes

\* the loop of _production_extract_amounts from offset i on: the big-endian
\* and the little-endian value of each window, until the list holds 10
RECURSIVE AmountsFrom(_, _, _)
AmountsFrom(data, i, amounts) ==
    IF NoMoreWindows(data, i) THEN amounts
    ELSE LET amount_be == SubSeq(data, i + 1, i + WindowBytes)
             amount_le == Reverse(amount_be)
             found == amounts
                      \o (IF Plausible(amount_be) THEN <<amount_be>> ELSE <<>>)
                      \o (IF Plausible(amount_le) THEN <<amount_le>> ELSE <<>>)
         IN IF Len(found) >= AmountLimit THEN found
            ELSE AmountsFrom(data, i + 1, found)

\* the orders list(set(amounts)) can have: the iteration order of a set of
\* strings follows their hashes, which differ from process to process
RECURSIVE Orders(_)
Orders(S) ==
    IF S = {} THEN {<<>>}
    ELSE UNION {{<<x>> \o rest : rest \in Orders(S \ {x})} : x \in S}

\* the values amounts[0] can have, and "0" when the list is empty
PrimaryAmounts(data) ==
    IF AmountsFrom(data, 0, <<>>) = <<>> THEN {ZeroAmount}
    ELSE Range(AmountsFrom(data, 0, <<>>))

\* a variant that returns None when the value yields no address
ProductionParseLeveldbValueOrNone(key, value, user_address, clock, primary_amount) ==
    IF ExtractRealEvmAddresses(value, user_address)[1] = <<>> THEN None
    ELSE LeveldbTransaction(Sha256Hex(key),
                            ExtractRealEvmAddresses(value, user_address)[1],
                            ExtractRealEvmAddresses(value, user_address)[2],
                            primary_amount, user_address, clock, <<>>)

\* _production_parse_leveldb_transaction on a value, given its primary amount
ProductionParseLeveldbValue(key, value, user_address, clock, primary_amount) ==
    LeveldbTransaction(Sha256Hex(key),
                       ExtractRealEvmAddresses(value, user_address)[1],
                       ExtractRealEvmAddresses(value, user_address)[2],
                       primary_amount, user_address, clock, <<>>)

\* k zero bytes
Zeros(k) == [i \in 1..k |-> <<"0", "0">>]

\* 1500000 as a little-endian uint64
SomeAmount ==
    <<<<"6", "0">>, <<"e", "3">>, <<"1", "6">>, <<"0", "0">>,
      <<"0", "0">>, <<"0", "0">>, <<"0", "0">>, <<"0", "0">>>>

\* what a value holds where an address may stand: nothing, the target's
\* bytes, another address's, twenty ff bytes, a tag and the target's first
\* four bytes
AddressParts ==
    {<<>>, FromHex(TargetHex), FromHex(OtherHex),
     [i \in 1..(AddressHexLength \div 2) |-> <<"f", "f">>],
     FromHex(<<"1", "2">> \o Slice(TargetHex, TagPrefixLength))}

\* values with up to two such parts, the first at byte offset 0, 12 or 20,
\* then an amount or none, then zero bytes
ExtractValues ==
    {Zeros(offset) \o first \o second \o amount \o Zeros(tail) :
        offset \in {0, 12, 20}, first \in AddressParts,
        second \in {<<>>, FromHex(TargetHex), FromHex(OtherHex)},
        amount \in {<<>>, SomeAmount}, tail \in 0..MaxTail}

InitExtract ==
    /\ IdlePipeline
    /\ \E value \in ExtractValues, a \in {<<"0", "x">> \o Upper(TargetHex), TargetHex} :
           arg = [value |-> value, user_address |-> a]
    /\ ret = <<>>
    /\ phase = "input"

CallExtractAddresses ==
    /\ phase = "input"
    /\ ret' = [fn |-> "addresses",
               addresses |-> ExtractRealEvmAddresses(arg.value, arg.user_address)]
    /\ phase' = "returned"
    /\ UNCHANGED <<arg, pipelineVars>>

\* what one iteration of the scan loop appends for a record
ScanIteration(matched, tx, sd, ed) ==
    IF matched /\ tx # None /\ TransactionInDateRange(tx, sd, ed) THEN <<tx>> ELSE <<>>

\* one iteration of the scan loop on the record (key 1, arg.value): the
\* matcher, the parser and the date test
CallScanIteration ==
    /\ phase = "input"
    /\ \E primary_amount \in PrimaryAmounts(arg.value) :
          ret' = [fn |-> "scan",
                  matched |-> ProductionTransactionInvolvesAddress(arg.value,
                                                                   arg.user_address),
                  transactions |->
                      ScanIteration(
                          ProductionTransactionInvolvesAddress(arg.value, arg.user_address),
                          ProductionParseLeveldbValue(1, arg.value, arg.user_address, 1,
                                                      primary_amount),
                          NoDate, NoDate)]
    /\ phase' = "returned"
    /\ UNCHANGED <<arg, pipelineVars>>

NextExtract == CallExtractAddresses \/ CallScanIteration

SpecExtract == InitExtract /\ [][NextExtract]_vars

FoundAddresses(value) == UniqueAddresses(ValidAddresses(Hex(value)), {})

\* a is the target address, as given or normalized
IsTarget(a, user_address) ==
    a \in {user_address, <<"0", "x">> \o TargetClean(user_address)}

(* C22: when extraction finds exactly one address in a record and it differs *)
(* from the target, the normalized transaction has the target on the missing *)
(* side: one of from_address and to_address is the found address and the     *)
(* other is the target.                                                      *)
C22_TargetOnMissingSide ==
    (/\ phase = "returned" /\ ret.fn = "scan" /\ Len(ret.transactions) = 1
     /\ Len(FoundAddresses(arg.value)) = 1
     /\ ~IsUserAddress(FoundAddresses(arg.value)[1], arg.user_address)) =>
        LET tx == ret.transactions[1]
            found == FoundAddresses(arg.value)[1]
        IN \/ tx.from_address = found /\ IsTarget(tx.to_address, arg.user_address)
           \/ tx.to_address = found /\ IsTarget(tx.from_address, arg.user_address)

\* the 20 bytes of address a stand at byte offset k of the value
EmbeddedAt(value, a, k) ==
    /\ k + Len(FromHex(a)) <= Len(value)
    /\ SubSeq(value, k + 1, k + Len(FromHex(a))) = FromHex(a)

(* C23: the address extractor recognises a 20-byte address at any byte       *)
(* offset of the value: an address that stands at some byte offset, 12 for   *)
(* one, is among the addresses extraction returns.                           *)
C23_AddressAtAnyOffset ==
    (phase = "returned" /\ ret.fn = "addresses") =>
        \A a \in {TargetHex, OtherHex} : \A k \in 0..Len(arg.value) :
            EmbeddedAt(arg.value, a, k) =>
                \E i \in 1..2 : Lower(ret.addresses[i]) = <<"0", "x">> \o a

-----------------------------------------------------------------------------
(* The amount extractor applied to short values: specification SpecAmounts   *)

\* the eight bytes a value holds: 1 as a big-endian uint64 and as a
\* little-endian one, 1500000 as a little-endian one and as a big-endian
\* one, eight different bytes, eight ff bytes
AmountParts ==
    {Zeros(WindowBytes - 1) \o <<<<"0", "1">>>>,
     <<<<"0", "1">>>> \o Zeros(WindowBytes - 1),
     SomeAmount,
     Reverse(SomeAmount),
     <<<<"0", "1">>, <<"0", "2">>, <<"0", "3">>, <<"0", "4">>,
       <<"0", "5">>, <<"0", "6">>, <<"0", "7">>, <<"0", "8">>>>,
     [i \in 1..WindowBytes |-> <<"f", "f">>]}

InitAmounts ==
    /\ IdlePipeline
    /\ \E lead \in 0..1, part \in AmountParts, tail \in 0..MaxTail :
           arg = [data |-> Zeros(lead) \o part \o Zeros(tail)]
    /\ ret = <<>>
    /\ phase = "input"

\* _production_extract_amounts: the amounts found, without duplicates, in
\* the order the set gives them
CallExtractAmounts ==
    /\ phase = "input"
    /\ \E amounts \in Orders(Range(AmountsFrom(arg.data, 0, <<>>))) :
           ret' = [amounts |-> amounts]
    /\ phase' = "returned"
    /\ UNCHANGED <<arg, pipelineVars>>

NextAmounts == CallExtractAmounts

SpecAmounts == InitAmounts /\ [][NextAmounts]_vars

\* the elements of a sequence in the order of their first occurrence
RECURSIVE FirstOccurrences(_, _)
FirstOccurrences(seq, seen) ==
    IF seq = <<>> THEN <<>>
    ELSE IF Head(seq) \in seen THEN FirstOccurrences(Tail(seq), seen)
    ELSE <<Head(seq)>> \o FirstOccurrences(Tail(seq), seen \cup {Head(seq)})

(* C24: the amount extractor returns its candidates in the order of their    *)
(* discovery, by increasing offset, the same on every call and in every      *)
(* process, so that the first candidate, the primary amount, is the accepted *)
(* window with the lowest offset.                                            *)
C24_AmountsInDiscoveryOrder ==
    phase = "returned" =>
        ret.amounts = FirstOccurrences(AmountsFrom(arg.data, 0, <<>>), {})

\* the last 8-byte window of a value of 8 bytes or more
LastWindow(data) == SubSeq(data, Len(data) - WindowBytes + 1, Len(data))

(* C30: the amount extractor examines every 8-byte window of the value, the  *)
(* last one included: when the final 8 bytes of a value, or the whole of a   *)
(* value 8 bytes long, are a plausible amount, that amount is a candidate.   *)
C30_LastWindowExamined ==
    (/\ phase = "returned"
     /\ Len(arg.data) >= WindowBytes
     /\ Plausible(LastWindow(arg.data))) =>
        \E i \in DOMAIN ret.amounts : ret.amounts[i] = LastWindow(arg.data)

-----------------------------------------------------------------------------
(* The EVM branch of the classifier, under specification SpecClassify        *)

\* the 'ethereum_tx' events of a transaction
EthereumTxEvents(tx_data) == SelectSeq(tx_data.events, LAMBDA e : e.type = "ethereum_tx")

\* the transaction's 'ethereum_tx' event names a recipient that is not an address
NonAddressRecipient(tx_data) ==
    /\ EthereumTxEvents(tx_data) # <<>>
    /\ EthereumTxEvents(tx_data)[1].attributes.recipient \notin {"", "0x-address"}

(* C25: a transaction that reaches the EVM branch of classify_transaction is *)
(* classified Swap exactly when its 'ethereum_tx' event has a non-empty      *)
(* recipient that is not 0x-prefixed, and OutboundTransfer otherwise, also   *)
(* when it has no events at all.                                             *)
C25_EvmSwapOrOutbound ==
    (phase = "returned" /\ EarliestKind(arg) = EvmTransaction) =>
        ret = IF NonAddressRecipient(arg) THEN SWAP_SWAP ELSE OUTBOUND_TRANSFER

-----------------------------------------------------------------------------
(* The RPC strategies for an EVM address against a node whose transactions   *)
(* are known: specification SpecQueries. arg.chain lists the node's EVM      *)
(* transactions, one per block, oldest first; arg.indexed says whether the   *)
(* node answers tx_search.                                                   *)

\* most transactions on the node
MaxChain == 2

\* block scanning leaves a range once it holds this many transactions
BlockScanEnough == 5

\* the node's answer to a tx_search query
TxSearch(chain, query, addr) ==
    CASE query = "ethereum_tx.from" -> SelectSeq(chain, LAMBDA tx : tx.sender = addr)
      [] query = "ethereum_tx.to" -> SelectSeq(chain, LAMBDA tx : tx.recipient = addr)
      [] query = "message.action" -> chain

\* _fetch_evm_transactions, the transactions handed to _parse_evm_transactions:
\* those of the three queries, one after the other
QueryResults(chain, addr) ==
    TxSearch(chain, "ethereum_tx.from", addr)
    \o TxSearch(chain, "ethereum_tx.to", addr)
    \o TxSearch(chain, "message.action", addr)

\* _decode_evm_transaction: the fields _parse_evm_transaction_data may add
\* are left at their defaults
DecodeEvmTransaction(tx, user_address) ==
    [hash |-> tx.hash,
     timestamp |-> tx.time,
     success |-> TRUE,
     type |-> TypeString("", "MsgEthereumTx"),
     from_address |-> user_address,
     to_address |-> "",
     amount |-> <<0>>,
     denom |-> <<"c", "i", "n", "t">>,
     fee |-> <<0>>,
     memo |-> "EVM transaction from block",
     events |-> <<>>]

\* _scan_blocks_for_address: the transactions of the recent blocks, newest
\* block first, until there are enough
ScanBlocksForAddress(chain, addr) ==
    [i \in 1..(IF Len(chain) < BlockScanEnough THEN Len(chain) ELSE BlockScanEnough) |->
        DecodeEvmTransaction(chain[Len(chain) + 1 - i], addr)]

\* the RPC fallback of fetch_transactions_by_address for an EVM address: the
\* tx_search queries, block scanning when they find nothing, and the merge
RpcStrategies(chain, indexed, addr, clock) ==
    IF indexed /\ chain # <<>>
    THEN FetchViaRpc([asked |-> TRUE, status |-> 200, txs |-> QueryResults(chain, addr)],
                     addr, clock, NoDate, NoDate).txs
    ELSE DeduplicateAndFilterTransactions(ScanBlocksForAddress(chain, addr), NoDate, NoDate)

InitQueries ==
    /\ IdlePipeline
    /\ \E n \in 0..MaxChain, indexed \in BOOLEAN :
          \E chain \in [1..n -> [time : Instants,
                                 sender : {"0x-address", "0x-other"},
                                 recipient : {"0x-address", "0x-other", ""}]] :
              arg = [address |-> "0x-address",
                     indexed |-> indexed,
                     chain |-> [i \in 1..n |-> [hash |-> i, time |-> chain[i].time,
                                                sender |-> chain[i].sender,
                                                recipient |-> chain[i].recipient]]]
    /\ ret = <<>>
    /\ phase = "input"

CallRpcStrategies ==
    /\ phase = "input"
    /\ ret' = RpcStrategies(arg.chain, arg.indexed, arg.address, 1)
    /\ phase' = "returned"
    /\ UNCHANGED <<arg, pipelineVars>>

NextQueries == CallRpcStrategies

SpecQueries == InitQueries /\ [][NextQueries]_vars

(* C26: every transaction fetch_transactions_by_address returns for address  *)
(* A comes from a record that involves A: no strategy reports a record as    *)
(* A's transaction without a test of the address on that record.             *)
C26_OnlyInvolvedReturned ==
    phase = "returned" =>
        \A i \in DOMAIN ret : \E j \in DOMAIN arg.chain :
            /\ arg.chain[j].hash = ret[i].hash
            /\ arg.address \in {arg.chain[j].sender, arg.chain[j].recipient}

-----------------------------------------------------------------------------
(* The handle of a LevelDB scan from the call to the return: specification   *)
(* SpecHandle. arg names the scan ("tx_index" for                            *)
(* _fetch_transactions_from_leveldb, "evm_index" for                         *)
(* _fetch_evm_transactions_from_leveldb) and the record at which the store's *)
(* iterator raises, if it does; ret holds the position of the scan, its      *)
(* variable tx_db, the handles that are open, the counter, the list and the  *)
(* way the scan left its loop.                                               *)

\* the diagnostics pass reads this many records at most
SampleLimit == 5

\* the scan of evm_index stops after this many records
EvmScanLimit == 500

\* _parse_evm_leveldb_transaction; the hash is derived from the key
ParseEvmLeveldbTransaction(key, user_address, clock) ==
    [hash |-> key,
     timestamp |-> clock,
     success |-> TRUE,
     type |-> TypeString("", "MsgEthereumTx"),
     from_address |-> user_address,
     to_address |-> "",
     amount |-> <<0>>,
     denom |-> <<"c", "i", "n", "t">>,
     fee |-> <<0>>,
     memo |-> "EVM transaction from LevelDB",
     events |-> <<>>]

\* tx_db.close() with nothing else done
CloseNothing(open, tx_db) == open

\* tx_db.close()
Close(open, tx_db) == open \ {tx_db}

\* the scans and the faults of the iterator: small stores with a fault at any
\* record of either pass (at record 0: the iterator never raises), and
\* fault-free stores beyond each limit
HandleInputs ==
    {[store |-> st, db_name |-> n, fault_at |-> f, during |-> d] :
        st \in Stores, n \in {"tx_index", "evm_index"},
        f \in 0..MaxStore, d \in {"sample", "scan"}} \cup
    {[store |-> st, db_name |-> "tx_index", fault_at |-> 0, during |-> "scan"] :
        st \in {StoreWith(ResultLimit + 1, 1..ResultLimit),
                StoreWith(ScanLimit + 1, {ScanLimit + 1})}} \cup
    {[store |-> StoreWith(EvmScanLimit + 1, {EvmScanLimit + 1}),
      db_name |-> "evm_index", fault_at |-> 0, during |-> "scan"]}

InitHandle ==
    /\ pc = "unused"
    /\ req = 0
    /\ now = 1
    /\ address = "0x-address"
    /\ start_date = NoDate
    /\ end_date = NoDate
    /\ \E input \in HandleInputs :
          /\ store = input.store
          /\ arg = [db_name |-> input.db_name, fault_at |-> input.fault_at,
                    during |-> input.during]
    /\ rpc = NotAsked
    /\ scanned = 0
    /\ transactions = <<>>
    /\ csv = <<>>
    /\ ret = [pc |-> "call", tx_db |-> None, open |-> {}, scanned |-> 0,
              transactions |-> <<>>, exit |-> "none"]
    /\ phase = "unused"

\* get_leveldb_connection and the test of its result, before the try
\* statement: without a handle the scan returns [] at once
OpenHandle ==
    /\ ret.pc = "call"
    /\ LET db == GetLeveldbConnection(store)
       IN ret' = IF db = None
                 THEN [ret EXCEPT !.pc = "returned", !.exit = "no handle"]
                 ELSE [ret EXCEPT !.tx_db = db, !.open = {db},
                                  !.pc = IF arg.db_name = "tx_index" THEN "sample" ELSE "scan"]
    /\ UNCHANGED <<pipelineVars, arg, phase>>

\* the diagnostics pass of _fetch_transactions_from_leveldb and the early
\* return for a store without records
SampleStore ==
    /\ ret.pc = "sample"
    /\ LET sample_count == IF store.size < SampleLimit THEN store.size ELSE SampleLimit
       IN ret' = IF arg.during = "sample" /\ arg.fault_at \in 1..sample_count
                 THEN [ret EXCEPT !.pc = "finally", !.exit = "exception"]
                 ELSE IF sample_count = 0
                 THEN [ret EXCEPT !.pc = "finally", !.exit = "empty"]
                 ELSE [ret EXCEPT !.pc = "scan"]
    /\ UNCHANGED <<pipelineVars, arg, phase>>

\* one step of the scan loop of _fetch_transactions_from_leveldb: the iterator
\* yields a record, raises, or is exhausted
ScanTxIndex ==
    /\ ret.pc = "scan"
    /\ arg.db_name = "tx_index"
    /\ LET record == Record(store, ret.scanned + 1)
           tx == ProductionParseLeveldbTransaction(record.key, address, now)
           found == IF record.involves /\ TransactionInDateRange(tx, start_date, end_date)
                    THEN Append(ret.transactions, tx)
                    ELSE ret.transactions
       IN ret' = IF ret.scanned = store.size
                 THEN [ret EXCEPT !.pc = "finally", !.exit = "complete"]
                 ELSE IF arg.during = "scan" /\ arg.fault_at = ret.scanned + 1
                 THEN [ret EXCEPT !.pc = "finally", !.exit = "exception",
                                  !.transactions = <<>>]
                 ELSE [ret EXCEPT !.scanned = ret.scanned + 1,
                                  !.transactions = found,
                                  !.pc = IF LimitReached(found, ret.scanned + 1)
                                         THEN "finally" ELSE "scan",
                                  !.exit = IF Len(found) >= ResultLimit THEN "result cap"
                                           ELSE IF ret.scanned + 1 >= ScanLimit THEN "scan cap"
                                           ELSE "none"]
    /\ UNCHANGED <<pipelineVars, arg, phase>>

\* one step of the scan loop of _fetch_evm_transactions_from_leveldb; what the
\* scan holds when the iterator raises is what it returns
ScanEvmIndex ==
    /\ ret.pc = "scan"
    /\ arg.db_name = "evm_index"
    /\ LET record == Record(store, ret.scanned + 1)
           found == IF record.involves
                    THEN Append(ret.transactions,
                                ParseEvmLeveldbTransaction(record.key, address, now))
                    ELSE ret.transactions
       IN ret' = IF ret.scanned = store.size
                 THEN [ret EXCEPT !.pc = "finally", !.exit = "complete"]
                 ELSE IF arg.fault_at = ret.scanned + 1
                 THEN [ret EXCEPT !.pc = "finally", !.exit = "exception"]
                 ELSE [ret EXCEPT !.scanned = ret.scanned + 1,
                                  !.transactions = found,
                                  !.pc = IF ret.scanned + 1 >= EvmScanLimit
                                         THEN "finally" ELSE "scan",
                                  !.exit = IF ret.scanned + 1 >= EvmScanLimit
                                           THEN "scan cap" ELSE "none"]
    /\ UNCHANGED <<pipelineVars, arg, phase>>

\* the finally clause of either scan, and the return
CloseHandle ==
    /\ ret.pc = "finally"
    /\ ret' = [ret EXCEPT !.open = Close(ret.open, ret.tx_db), !.pc = "returned"]
    /\ UNCHANGED <<pipelineVars, arg, phase>>

NextHandle == OpenHandle \/ SampleStore \/ ScanTxIndex \/ ScanEvmIndex \/ CloseHandle

SpecHandle == InitHandle /\ [][NextHandle]_vars

(* C27: every store handle a LevelDB scan opened is closed when the scan     *)
(* returns, on every exit path: the loop ran to its end, a cap was reached,  *)
(* the store was empty, or the iteration raised.                             *)
C27_HandleClosedOnReturn ==
    ret.pc = "returned" => ret.open = {}

\* a scan that had opened the store returned because its iterator raised
\* after a record had been examined
C27_Witness ==
    /\ ret.pc = "returned"
    /\ ret.tx_db # None
    /\ ret.exit = "exception"
    /\ ret.scanned > 0

====
